---- MODULE Spec2Model ----
(***************************************************************************)
(* Model of the sculpt mesh filter operator                                *)
(* (source/blender/editors/sculpt_paint/sculpt_filter_mesh.cc).            *)
(*                                                                         *)
(* Numbers.  Floats are modelled in fixed point: the integer k stands for  *)
(* k / One.  Products are divided by One and truncated toward zero.        *)
(* Coordinates, normals, strengths, masks and fades all use this unit.     *)
(* Matrices hold plain integers (rotations by a quarter turn).             *)
(*                                                                         *)
(* Mesh.  Three vertices on a path 1 - 2 - 3, split into two PBVH leaf     *)
(* nodes <<1, 2>> and <<3>>, so that vertex 2 has a neighbour owned by the *)
(* other node.                                                             *)
(***************************************************************************)
EXTENDS Integers, Sequences, FiniteSets, TLC

\* ------------------------------------------------------------------ bounds
\* Motion samples handled by one modal run.
MaxMoves == 2
\* Apply calls (sculpt_mesh_filter_apply) in one behaviour, over all runs.
MaxApplies == 5
\* Largest sharpen_curvature_smooth_iterations the precomputation is run
\* with.
MaxSmoothIterations == 2
\* Motion samples of an interactive Relax Face Sets run in RelaxSpec.
MaxRelaxMoves == 4

\* --------------------------------------------------------------- constants
\* Fixed-point unit: the integer One stands for 1.0f.
One == 4
\* U.dpi_fac, read through the UI_DPI_FAC macro.
UI_DPI_FAC == 1
\* 1 / 0.001f, the divisor of the pointer offset in the strength formula.
StrengthDivisor == 1000
\* Width of an unsigned int of the hash, in values (2^8 in the model).
UIntMod == 256

None == "None"
\* A null pointer to an array.
NULL == << >>
\* ss->filter_cache when the session holds no cache.
NoCache == [allocated |-> FALSE]

\* ------------------------------------------------------------------- enums
MESH_FILTER_SMOOTH == "SMOOTH"
MESH_FILTER_SCALE == "SCALE"
MESH_FILTER_INFLATE == "INFLATE"
MESH_FILTER_SPHERE == "SPHERE"
MESH_FILTER_RANDOM == "RANDOM"
MESH_FILTER_RELAX == "RELAX"
MESH_FILTER_RELAX_FACE_SETS == "RELAX_FACE_SETS"
MESH_FILTER_SURFACE_SMOOTH == "SURFACE_SMOOTH"
MESH_FILTER_SHARPEN == "SHARPEN"
MESH_FILTER_ENHANCE_DETAILS == "ENHANCE_DETAILS"
MESH_FILTER_ERASE_DISPLACEMENT == "ERASE_DISPLACEMENT"

eSculptMeshFilterType ==
    { MESH_FILTER_SMOOTH, MESH_FILTER_SCALE, MESH_FILTER_INFLATE,
      MESH_FILTER_SPHERE, MESH_FILTER_RANDOM, MESH_FILTER_RELAX,
      MESH_FILTER_RELAX_FACE_SETS, MESH_FILTER_SURFACE_SMOOTH,
      MESH_FILTER_SHARPEN, MESH_FILTER_ENHANCE_DETAILS,
      MESH_FILTER_ERASE_DISPLACEMENT }

\* eMeshFilterDeformAxis is a bit mask: X = 1, Y = 2, Z = 4.
DeformAxisBit(axis) == IF axis = 1 THEN 1 ELSE IF axis = 2 THEN 2 ELSE 4

SCULPT_FILTER_ORIENTATION_LOCAL == "LOCAL"
SCULPT_FILTER_ORIENTATION_WORLD == "WORLD"
SCULPT_FILTER_ORIENTATION_VIEW == "VIEW"

SculptFilterOrientation ==
    { SCULPT_FILTER_ORIENTATION_LOCAL, SCULPT_FILTER_ORIENTATION_WORLD,
      SCULPT_FILTER_ORIENTATION_VIEW }

SCULPT_BOUNDARY_MESH == "BOUNDARY_MESH"
SCULPT_BOUNDARY_FACE_SET == "BOUNDARY_FACE_SET"

OPERATOR_RUNNING_MODAL == "RUNNING_MODAL"
OPERATOR_CANCELLED == "CANCELLED"
OPERATOR_FINISHED == "FINISHED"
OPERATOR_PASS_THROUGH == "PASS_THROUGH"

sculpt_mesh_filter_needs_pmap(filter_type) ==
    filter_type \in { MESH_FILTER_SMOOTH, MESH_FILTER_RELAX,
                      MESH_FILTER_RELAX_FACE_SETS, MESH_FILTER_SURFACE_SMOOTH,
                      MESH_FILTER_ENHANCE_DETAILS, MESH_FILTER_SHARPEN }

\* A test that takes every kind for a continuous one.
EveryKindContinuous(type) == type \in eSculptMeshFilterType

sculpt_mesh_filter_is_continuous(type) ==
    type \in { MESH_FILTER_SHARPEN, MESH_FILTER_SMOOTH, MESH_FILTER_RELAX,
               MESH_FILTER_RELAX_FACE_SETS }

\* ------------------------------------------------------------ float model
Abs(a) == IF a < 0 THEN -a ELSE a

\* C division of a by b > 0, truncating toward zero.
TruncDiv(a, b) == IF a >= 0 THEN a \div b ELSE -((-a) \div b)

\* The product of two fixed-point numbers.
MulF(a, b) == TruncDiv(a * b, One)

\* A clamp that returns its argument.
ClampNothing(value, min, max) == value

clamp_f(value, min, max) ==
    IF value > max THEN max ELSE IF value < min THEN min ELSE value

pow2f(x) == MulF(x, x)

RECURSIVE ISqrtFrom(_, _)
ISqrtFrom(n, r) == IF (r + 1) * (r + 1) > n THEN r ELSE ISqrtFrom(n, r + 1)

\* Largest r with r * r <= n, for n >= 0.
ISqrt(n) == ISqrtFrom(n, 0)

\* ---------------------------------------------------------------- vectors
Axes == 1..3
ZeroV == <<0, 0, 0>>

add_v3_v3v3(a, b) == [i \in Axes |-> a[i] + b[i]]
sub_v3_v3v3(a, b) == [i \in Axes |-> a[i] - b[i]]
mul_v3_v3fl(a, f) == [i \in Axes |-> MulF(a[i], f)]
\* r = a + b * f
madd_v3_v3v3fl(a, b, f) == [i \in Axes |-> a[i] + MulF(b[i], f)]
mid_v3_v3v3(a, b) == [i \in Axes |-> TruncDiv(a[i] + b[i], 2)]
\* Length of a fixed-point vector, in fixed point.
len_v3(a) == ISqrt(a[1] * a[1] + a[2] * a[2] + a[3] * a[3])
\* The unit vector of a, or zero for a vector of length zero.
NormalizeWith(a, len) ==
    IF len = 0 THEN ZeroV ELSE [i \in Axes |-> TruncDiv(a[i] * One, len)]

normalize_v3_v3(a) == NormalizeWith(a, len_v3(a))

\* A matrix is a triple of columns; mul_mat3_m4_v3 uses its upper 3x3 part.
mul_mat3_m4_v3(M, v) ==
    [i \in Axes |-> M[1][i] * v[1] + M[2][i] * v[2] + M[3][i] * v[3]]

Det3(M) ==
      M[1][1] * (M[2][2] * M[3][3] - M[3][2] * M[2][3])
    - M[2][1] * (M[1][2] * M[3][3] - M[3][2] * M[1][3])
    + M[3][1] * (M[1][2] * M[2][3] - M[2][2] * M[1][3])

\* Entry (row i, column j) of M: M[j][i].  Cofactor of that entry.
Cofactor(M, i, j) ==
    LET r == Axes \ {i}
        c == Axes \ {j}
        r1 == CHOOSE x \in r : \A y \in r : x <= y
        r2 == CHOOSE x \in r : \A y \in r : x >= y
        c1 == CHOOSE x \in c : \A y \in c : x <= y
        c2 == CHOOSE x \in c : \A y \in c : x >= y
        minor == M[c1][r1] * M[c2][r2] - M[c2][r1] * M[c1][r2]
    IN  IF (i + j) % 2 = 0 THEN minor ELSE -minor

\* The inverse of M by the adjugate.  The model's matrices have determinant
\* 1 or -1, for which dividing by the determinant is multiplying by it.
invert_m4_m4(M) ==
    [j \in Axes |-> [i \in Axes |-> Cofactor(M, j, i) * Det3(M)]]

\* ------------------------------------------------------------------- mesh
Verts == {1, 2, 3}
Nodes == {1, 2}

\* BKE_pbvh_vertex_iter over PBVH_ITER_UNIQUE: the vertices a leaf owns.
NodeVerts(n) == IF n = 1 THEN <<1, 2>> ELSE <<3>>

NodeOf(v) == CHOOSE n \in Nodes : \E k \in DOMAIN NodeVerts(n) : NodeVerts(n)[k] = v

\* SCULPT_VERTEX_NEIGHBORS_ITER: the vertices sharing an edge with v.
Neighbors(v) == IF v = 2 THEN <<1, 3>> ELSE <<2>>

\* The mesh before the operator runs.
MeshCo == [v \in Verts |-> IF v = 1 THEN <<8, 0, 0>>
                           ELSE IF v = 2 THEN <<0, 12, 4>>
                           ELSE <<0, 4, 8>>]

\* The vertex normals of that mesh (unit vectors).
MeshNo == [v \in Verts |-> IF v = 1 THEN <<One, 0, 0>>
                           ELSE IF v = 2 THEN <<0, One, 0>>
                           ELSE <<0, 0, One>>]

\* ob->object_to_world: a quarter turn about Z.
ObjectToWorld == << <<0, 1, 0>>, <<-1, 0, 0>>, <<0, 0, 1>> >>
\* rv3d->viewmat: a quarter turn about X; rv3d->viewinv is its inverse.
ViewMat == << <<1, 0, 0>>, <<0, 0, 1>>, <<0, -1, 0>> >>
ViewInv == << <<1, 0, 0>>, <<0, 0, -1>>, <<0, 1, 0>> >>

\* SCULPT_vertex_has_unique_face_set: vertex 2 lies on a face-set border.
SCULPT_vertex_has_unique_face_set(v) == v # 2

\* SCULPT_vertex_is_boundary: the ends of the path are mesh boundary; a
\* vertex without a unique face set is face-set boundary.
SCULPT_vertex_is_boundary(v, boundtype) ==
    \/ SCULPT_BOUNDARY_MESH \in boundtype /\ v \in {1, 3}
    \/ SCULPT_BOUNDARY_FACE_SET \in boundtype /\ ~SCULPT_vertex_has_unique_face_set(v)

\* SCULPT_vertex_limit_surface_get: the limit surface lies halfway to the
\* origin.
SCULPT_vertex_limit_surface_get(v) == [i \in Axes |-> TruncDiv(MeshCo[v][i], 2)]

\* The factor of the automasking cache for a vertex.
AutomaskValue == [v \in Verts |-> IF v = 2 THEN One \div 2 ELSE One]

\* ------------------------------------------------------------------ state
VARIABLES
    co,             \* vertex positions of the mesh (vd.co)
    mask,           \* paint mask per vertex (vd.mask)
    use_automasking,\* SCULPT_is_automasking_enabled(sd)
    undo,           \* the sculpt undo record [open, nodes], NoUndo at first
    filter_cache,   \* ss->filter_cache: NoCache, or the FilterCache
    laplacian_disp, \* per-vertex Laplacian estimate of Surface Smooth
    pbvh,           \* [update_normal: vertices tagged, node_update: nodes marked]
    op,             \* op->ptr: the operator's properties
    handler,        \* the modal handler of the operator is installed
    ret,            \* the value the last operator callback returned
    pc,             \* control thread: "idle", "modal", "task_cb", "displace_cb"
    ctx,            \* the callback that runs the current apply: "modal", "exec"
    data,           \* SculptThreadedTaskData of the running apply
    task_pos,       \* per node task: index of the next vertex it visits
    exec_i,         \* loop counter i of sculpt_mesh_filter_exec
    hist_i,         \* index of the replayed item of event_history
    runs,           \* operator runs started so far (refused starts aside)
    event,          \* the event of the last call, None if it had none
    last_call,      \* the entry point called last
    acc,            \* accesses of the running pass: reads, writes per task
    applied,        \* strengths of the apply calls of the current run
    start_co,       \* positions when the current run started
    done,           \* records of the finished runs
    mem             \* heap blocks of the cache that are live, and counts of
                    \* the allocations, frees, undo begins and undo ends

vars == << co, mask, use_automasking, undo, filter_cache, laplacian_disp, pbvh,
           op, handler, ret, pc, ctx, data, task_pos, exec_i, hist_i, runs,
           event, last_call, acc, applied, start_co, done, mem >>

\* ---------------------------------------------------------- orientation
SCULPT_filter_to_orientation_space(v, fc) ==
    IF fc.orientation = SCULPT_FILTER_ORIENTATION_LOCAL THEN v
    ELSE IF fc.orientation = SCULPT_FILTER_ORIENTATION_WORLD
         THEN mul_mat3_m4_v3(fc.obmat, v)
    ELSE mul_mat3_m4_v3(fc.viewmat, mul_mat3_m4_v3(fc.obmat, v))

\* The way back with the two inverses of the view orientation swapped.
ToObjectSpaceObmatFirst(v, fc) ==
    IF fc.orientation = SCULPT_FILTER_ORIENTATION_LOCAL THEN v
    ELSE IF fc.orientation = SCULPT_FILTER_ORIENTATION_WORLD
         THEN mul_mat3_m4_v3(fc.obmat_inv, v)
    ELSE mul_mat3_m4_v3(fc.viewmat_inv, mul_mat3_m4_v3(fc.obmat_inv, v))

\* Lines 66-80.
SCULPT_filter_to_object_space(v, fc) ==
    IF fc.orientation = SCULPT_FILTER_ORIENTATION_LOCAL THEN v
    ELSE IF fc.orientation = SCULPT_FILTER_ORIENTATION_WORLD
         THEN mul_mat3_m4_v3(fc.obmat_inv, v)
    ELSE mul_mat3_m4_v3(fc.obmat_inv, mul_mat3_m4_v3(fc.viewmat_inv, v))

\* Lines 544-550 of mesh_filter_task_cb: the displacement with the disabled
\* axes of the orientation frame zeroed.
ZeroDisabledAxis(disp, fc) ==
    LET o == SCULPT_filter_to_orientation_space(disp, fc)
        z == [it \in Axes |-> IF fc.enabled_axis[it] THEN o[it] ELSE 0]
    IN  SCULPT_filter_to_object_space(z, fc)

\* -------------------------------------------------- external collaborators
RECURSIVE SumV(_, _)
\* The sum of f[s[k]] over the entries of the sequence s.
SumV(s, f) == IF s = << >> THEN ZeroV ELSE add_v3_v3v3(f[Head(s)], SumV(Tail(s), f))

RECURSIVE SumS(_, _)
SumS(s, f) == IF s = << >> THEN 0 ELSE f[Head(s)] + SumS(Tail(s), f)

\* SCULPT_vertex_co_get: the live position of a vertex.
SCULPT_vertex_co_get(c, v) == c[v]

\* SCULPT_neighbor_coords_average (and its _interior variant): the mean of
\* the live positions of the neighbours of v, or v's own position when it
\* has none.
SCULPT_neighbor_coords_average(c, v) ==
    LET ns == Neighbors(v)
        total == Len(ns)
        sum == SumV(ns, [w \in Verts |-> SCULPT_vertex_co_get(c, w)])
    IN  IF total > 0 THEN [i \in Axes |-> TruncDiv(sum[i], total)] ELSE c[v]

RECURSIVE SelectBoundary(_, _)
SelectBoundary(s, boundtype) ==
    IF s = << >> THEN << >>
    ELSE IF SCULPT_vertex_is_boundary(Head(s), boundtype)
         THEN <<Head(s)>> \o SelectBoundary(Tail(s), boundtype)
         ELSE SelectBoundary(Tail(s), boundtype)

\* SCULPT_relax_vertex: moves v toward the mean of its neighbours by factor;
\* a boundary vertex (under boundtype) only follows its boundary neighbours.
SCULPT_relax_vertex(c, v, factor, boundtype) ==
    LET ns == IF SCULPT_vertex_is_boundary(v, boundtype)
              THEN SelectBoundary(Neighbors(v), boundtype)
              ELSE Neighbors(v)
        total == Len(ns)
        sum == SumV(ns, c)
        avg == [i \in Axes |-> TruncDiv(sum[i], total)]
    IN  IF total = 0 THEN c[v]
        ELSE madd_v3_v3v3fl(c[v], sub_v3_v3v3(avg, c[v]), factor)

\* SCULPT_surface_smooth_laplacian_step: the Laplacian estimate stored for v
\* and the displacement returned, for the blend alpha of original and live
\* position.
SCULPT_surface_smooth_laplacian_step(c, v, origco, alpha) ==
    LET avg == SCULPT_neighbor_coords_average(c, v)
        d == add_v3_v3v3(mul_v3_v3fl(origco, alpha), mul_v3_v3fl(c[v], One - alpha))
    IN  [laplacian_disp |-> sub_v3_v3v3(avg, d), disp |-> sub_v3_v3v3(avg, c[v])]

\* SCULPT_surface_smooth_displace_step: the position of v after the second
\* pass, from the Laplacian estimates lap of v and of its neighbours.
SCULPT_surface_smooth_displace_step(c, lap, v, beta, fade) ==
    LET ns == Neighbors(v)
        total == Len(ns)
        b_avg == SumV(ns, lap)
        b0 == [i \in Axes |-> TruncDiv(b_avg[i] * (One - beta), One * total)]
        b1 == madd_v3_v3v3fl(b0, lap[v], beta)
        b2 == mul_v3_v3fl(b1, clamp_f(fade, 0, One))
    IN  IF total > 0 THEN sub_v3_v3v3(c[v], b2) ELSE c[v]

RECURSIVE XorBits(_, _, _)
\* Bitwise exclusive or of two unsigned numbers below m (a power of two).
XorBits(a, b, m) ==
    IF m = 1 THEN 0
    ELSE ((a + b) % 2) + 2 * XorBits(a \div 2, b \div 2, m \div 2)

\* BLI_hash_int_2d on the model's unsigned width.
BLI_hash_int_2d(kx, ky) == ((kx % UIntMod) * 31 + (ky % UIntMod) * 17 + 7) % UIntMod

\* SCULPT_automasking_factor_get: 1.0 without an automasking cache.
SCULPT_automasking_factor_get(automasking, v) ==
    IF automasking = NULL THEN One ELSE automasking[v]

\* SCULPT_automasking_cache_init: no cache unless automasking is enabled.
SCULPT_automasking_cache_init(enabled) == IF enabled THEN AutomaskValue ELSE NULL

\* ------------------------------------------------------------------ undo
\* No undo record: nothing open, no node recorded.
NoUndo == [open |-> FALSE, nodes |-> [n \in Nodes |-> NULL]]

SCULPT_undo_push_begin == [open |-> TRUE, nodes |-> [n \in Nodes |-> NULL]]

\* SCULPT_undo_push_node: records the coordinates of the node's vertices the
\* first time the node is pushed, and returns the record of the node.
SCULPT_undo_push_node(u, c, n) ==
    IF u.nodes[n] # NULL THEN u
    ELSE [u EXCEPT !.nodes[n] =
            [k \in DOMAIN NodeVerts(n) |-> c[NodeVerts(n)[k]]]]

\* A snapshot of the first gathered node only.
PushFirstNode(u, c, ns) ==
    IF ns = << >> THEN u ELSE SCULPT_undo_push_node(u, c, Head(ns))

RECURSIVE PushNodes(_, _, _)
\* filter_cache_init_task_cb over the gathered nodes (lines 93-101, 152-153).
PushNodes(u, c, ns) ==
    IF ns = << >> THEN u
    ELSE PushNodes(SCULPT_undo_push_node(u, c, Head(ns)), c, Tail(ns))

SCULPT_undo_push_end(u) == [u EXCEPT !.open = FALSE]

\* SCULPT_orig_vert_data_update: orig_data.co of a vertex, from the undo
\* node of its leaf.
OrigCo(u, v) ==
    LET n == NodeOf(v)
        k == CHOOSE j \in DOMAIN NodeVerts(n) : NodeVerts(n)[j] = v
    IN  u.nodes[n][k]

\* orig_data.no of a vertex.
OrigNo(v) == MeshNo[v]

\* ------------------------------------------------- auxiliary buffer setup
\* The float that is not a number: a value no arithmetic of the model
\* produces. An operation with a NaN operand gives NaN.
NaN == -1000000


\* Detail directions stored for the vertices of the first node only.
DetailDirectionsOfFirstNode(c) ==
    [i \in {1, 2} |-> sub_v3_v3v3(SCULPT_neighbor_coords_average(c, i),
                                  SCULPT_vertex_co_get(c, i))]

\* mesh_filter_enhance_details_init_directions
mesh_filter_enhance_details_init_directions(c) ==
    [i \in Verts |-> sub_v3_v3v3(SCULPT_neighbor_coords_average(c, i),
                                 SCULPT_vertex_co_get(c, i))]

\* mesh_filter_init_limit_surface_co
mesh_filter_init_limit_surface_co ==
    [i \in Verts |-> SCULPT_vertex_limit_surface_get(i)]

\* Lines 634-639: the largest entry of the factors, 0.0f at least.
MaxFactor(f) ==
    IF \A i \in Verts : f[i] <= 0 THEN 0
    ELSE CHOOSE m \in {f[i] : i \in Verts} : \A i \in Verts : f[i] <= m

\* Lines 641-645: the factor scaled by 1.0f / max_factor and remapped.  With
\* max_factor 0.0f the reciprocal is infinite and 0 * inf is not a number.
\* The product with the reciprocal is modelled as the quotient.
NormalizeFactor(x, max_factor) ==
    IF max_factor = 0 THEN NaN
    ELSE One - pow2f(One - TruncDiv(x * One, max_factor))

RECURSIVE SharpenSmoothVerts(_, _)
\* Lines 651-670: one pass over the vertices from index i on, in place.
SharpenSmoothVerts(b, i) ==
    IF i \notin Verts THEN b
    ELSE LET ns == Neighbors(i)
             total == Len(ns)
             direction_avg == SumV(ns, b.detail_directions)
             sharpen_avg == IF \E k \in DOMAIN ns : b.sharpen_factor[ns[k]] = NaN
                            THEN NaN
                            ELSE SumS(ns, b.sharpen_factor)
             nb == IF total > 0
                   THEN [detail_directions |->
                            [b.detail_directions EXCEPT ![i] =
                                [k \in Axes |-> TruncDiv(direction_avg[k], total)]],
                         sharpen_factor |->
                            [b.sharpen_factor EXCEPT ![i] =
                                IF sharpen_avg = NaN THEN NaN
                                ELSE TruncDiv(sharpen_avg, total)]]
                   ELSE b
         IN  SharpenSmoothVerts(nb, i + 1)

RECURSIVE SharpenSmooth(_, _)
SharpenSmooth(b, smooth_iterations) ==
    IF smooth_iterations <= 0 THEN b
    ELSE SharpenSmooth(SharpenSmoothVerts(b, 1), smooth_iterations - 1)

\* mesh_filter_sharpen_init: the buffers sharpen_factor and
\* detail_directions.
mesh_filter_sharpen_init(c, curvature_smooth_iterations) ==
    LET dd == [i \in Verts |-> sub_v3_v3v3(SCULPT_neighbor_coords_average(c, i),
                                           SCULPT_vertex_co_get(c, i))]
        len == [i \in Verts |-> len_v3(dd[i])]
        max_factor == MaxFactor(len)
        sf == [i \in Verts |-> NormalizeFactor(len[i], max_factor)]
    IN  SharpenSmooth([detail_directions |-> dd, sharpen_factor |-> sf],
                      curvature_smooth_iterations)

\* --------------------------------------------------------- filter cache
\* BKE_pbvh_search_gather over the whole mesh: every leaf, in order.
GatherNodes == <<1, 2>>

RandomSeeds == {0, 1}

\* SCULPT_filter_cache_init followed by lines 949-989 of
\* sculpt_mesh_filter_start: the cache of a started operator.
NewFilterCache(c, o, automask_enabled, seed) ==
    LET sharpen == IF o.type = MESH_FILTER_SHARPEN
                   THEN mesh_filter_sharpen_init(c, o.sharpen_curvature_smooth_iterations)
                   ELSE [detail_directions |-> NULL, sharpen_factor |-> NULL]
    IN  [ start_filter_strength |-> o.strength,
          random_seed |-> seed,
          nodes |-> GatherNodes,
          totnode |-> Len(GatherNodes),
          iteration_count |-> 0,
          no_orig_co |-> FALSE,
          obmat |-> ObjectToWorld,
          obmat_inv |-> invert_m4_m4(ObjectToWorld),
          viewmat |-> ViewMat,
          viewmat_inv |-> ViewInv,
          automasking |-> SCULPT_automasking_cache_init(automask_enabled),
          surface_smooth_shape_preservation |->
              IF o.type = MESH_FILTER_SURFACE_SMOOTH
              THEN o.surface_smooth_shape_preservation ELSE 0,
          surface_smooth_current_vertex |->
              IF o.type = MESH_FILTER_SURFACE_SMOOTH
              THEN o.surface_smooth_current_vertex ELSE 0,
          sharpen_smooth_ratio |->
              IF o.type = MESH_FILTER_SHARPEN THEN o.sharpen_smooth_ratio ELSE 0,
          sharpen_intensify_detail_strength |->
              IF o.type = MESH_FILTER_SHARPEN
              THEN o.sharpen_intensify_detail_strength ELSE 0,
          sharpen_factor |-> sharpen.sharpen_factor,
          detail_directions |->
              IF o.type = MESH_FILTER_ENHANCE_DETAILS
              THEN mesh_filter_enhance_details_init_directions(c)
              ELSE sharpen.detail_directions,
          limit_surface_co |->
              IF o.type = MESH_FILTER_ERASE_DISPLACEMENT
              THEN mesh_filter_init_limit_surface_co ELSE NULL,
          enabled_axis |-> [a \in Axes |-> (o.deform_axis \div DeformAxisBit(a)) % 2 = 1],
          orientation |-> o.orientation ]

\* --------------------------------------------------------- vertex loops
\* A vertex loop that also visits the vertices a node shares with its
\* neighbour node (PBVH_ITER_ALL): what C6 excludes.
VertexIterAll(n) == NodeVerts(n) \o (IF n = 1 THEN <<3>> ELSE <<2>>)

\* BKE_pbvh_vertex_iter_begin (ss->pbvh, node, vd, PBVH_ITER_UNIQUE): the
\* vertices the loop of a node task visits, in order.
BKE_pbvh_vertex_iter(n) == NodeVerts(n)

\* SCULPT_orig_vert_data_init and SCULPT_orig_vert_data_update: orig_data.co
\* of v; the undo node of the leaf is pushed if the record has none yet.
SCULPT_orig_vert_data_co(u, c, v) == OrigCo(SCULPT_undo_push_node(u, c, NodeOf(v)), v)

\* ------------------------------------------------ per-vertex displacement
\* A fade that leaves the paint mask out.
FadeWithoutMask(v, filter_strength, fc) ==
    MulF(filter_strength, SCULPT_automasking_factor_get(fc.automasking, v))

\* Lines 391-395: fade of a vertex for the strength of the running apply.
Fade(v, filter_strength, fc) ==
    MulF(MulF(One - mask[v], filter_strength),
         SCULPT_automasking_factor_get(fc.automasking, v))

\* A loop that runs its body for every vertex.
SkipNoVertex(filter_type, fade) == FALSE

\* Lines 397-403: the vertex is skipped when its fade is zero, except by
\* Surface Smooth.
SkipZeroFade(filter_type, fade) ==
    fade = 0 /\ filter_type # MESH_FILTER_SURFACE_SMOOTH

\* An orig_co that no_orig_co does not change.
OrigCoIgnoringFlag(filter_type, v, fc) ==
    IF filter_type \in {MESH_FILTER_RELAX, MESH_FILTER_RELAX_FACE_SETS}
    THEN co[v]
    ELSE SCULPT_orig_vert_data_co(undo, co, v)

\* Lines 405-411: orig_co is the live position for the relax kinds and when
\* no_orig_co is set, the undo snapshot otherwise.
OrigCoOf(filter_type, v, fc) ==
    IF filter_type \in {MESH_FILTER_RELAX, MESH_FILTER_RELAX_FACE_SETS} \/ fc.no_orig_co
    THEN co[v]
    ELSE SCULPT_orig_vert_data_co(undo, co, v)

\* A phase that alternates with every iteration.
RelaxFaceSetsEverySecond(fc) == ~(fc.iteration_count % 2 = 0)

\* Line 376.
relax_face_sets(fc) == ~(fc.iteration_count % 3 = 0)

\* Lines 413-417.
SkipFaceSet(filter_type, v, fc) ==
    /\ filter_type = MESH_FILTER_RELAX_FACE_SETS
    /\ relax_face_sets(fc) = SCULPT_vertex_has_unique_face_set(v)

\* Lines 488-531: the Sharpen displacement of v.
SharpenDisp(v, fc) ==
    LET sf == fc.sharpen_factor
        disp_n == [w \in Verts |->
                     mul_v3_v3fl(sub_v3_v3v3(SCULPT_vertex_co_get(co, w),
                                             SCULPT_vertex_co_get(co, v)), sf[w])]
        disp_sharpen == mul_v3_v3fl(SumV(Neighbors(v), disp_n), One - sf[v])
        avg_co == SCULPT_neighbor_coords_average(co, v)
        disp_avg == mul_v3_v3fl(sub_v3_v3v3(avg_co, co[v]),
                                MulF(fc.sharpen_smooth_ratio, pow2f(sf[v])))
        d == add_v3_v3v3(disp_avg, disp_sharpen)
    IN  IF fc.sharpen_intensify_detail_strength > 0
        THEN madd_v3_v3v3fl(d, fc.detail_directions[v],
                            MulF(-fc.sharpen_intensify_detail_strength, sf[v]))
        ELSE d

\* A Random displacement whose hash also takes in how many runs have
\* started, as a generator that is not reseeded would.
RandomDispUnseeded(v, fade, orig_co, fc) ==
    LET hash == XorBits(BLI_hash_int_2d(orig_co[1], orig_co[2]),
                        BLI_hash_int_2d(orig_co[3], fc.random_seed + 5 * runs), UIntMod)
        normal == mul_v3_v3fl(OrigNo(v), TruncDiv(hash * One, UIntMod - 1) - One \div 2)
    IN  mul_v3_v3fl(normal, fade)

\* Lines 459-469: the Random displacement; the hash reads the bits of the
\* coordinates of orig_co.
RandomDisp(v, fade, orig_co, fc) ==
    LET hash == XorBits(BLI_hash_int_2d(orig_co[1], orig_co[2]),
                        BLI_hash_int_2d(orig_co[3], fc.random_seed), UIntMod)
        normal == mul_v3_v3fl(OrigNo(v), TruncDiv(hash * One, UIntMod - 1) - One \div 2)
    IN  mul_v3_v3fl(normal, fade)

\* Lines 437-458: the Sphere displacement.
SphereDisp(fade, orig_co) ==
    LET n == normalize_v3_v3(orig_co)
        disp == IF fade > 0 THEN mul_v3_v3fl(n, fade) ELSE mul_v3_v3fl(n, -fade)
        scale == IF fade > 0 THEN One - fade ELSE One + fade
        disp2 == sub_v3_v3v3(mul_v3_v3fl(orig_co, scale), orig_co)
    IN  mid_v3_v3v3(disp, disp2)

\* Lines 419-542: the switch over the filter type.  The result holds the
\* displacement, fade as the case leaves it, and for Surface Smooth the
\* Laplacian estimate it stores.
FilterSwitch(filter_type, v, fade, orig_co, fc) ==
    IF filter_type = MESH_FILTER_SMOOTH THEN
        LET f == clamp_f(fade, -One, One)
            avg == SCULPT_neighbor_coords_average(co, v)
            val == madd_v3_v3v3fl(orig_co, sub_v3_v3v3(avg, orig_co), f)
        IN  [disp |-> sub_v3_v3v3(val, orig_co), fade |-> f, lap |-> NULL]
    ELSE IF filter_type = MESH_FILTER_INFLATE THEN
        [disp |-> mul_v3_v3fl(OrigNo(v), fade), fade |-> fade, lap |-> NULL]
    ELSE IF filter_type = MESH_FILTER_SCALE THEN
        [disp |-> sub_v3_v3v3(mul_v3_v3fl(orig_co, One + fade), orig_co),
         fade |-> fade, lap |-> NULL]
    ELSE IF filter_type = MESH_FILTER_SPHERE THEN
        [disp |-> SphereDisp(fade, orig_co), fade |-> fade, lap |-> NULL]
    ELSE IF filter_type = MESH_FILTER_RANDOM THEN
        [disp |-> RandomDisp(v, fade, orig_co, fc), fade |-> fade, lap |-> NULL]
    ELSE IF filter_type = MESH_FILTER_RELAX THEN
        [disp |-> sub_v3_v3v3(SCULPT_relax_vertex(co, v, clamp_f(fade, 0, One),
                                                  {SCULPT_BOUNDARY_MESH}), co[v]),
         fade |-> fade, lap |-> NULL]
    ELSE IF filter_type = MESH_FILTER_RELAX_FACE_SETS THEN
        LET boundtype == IF relax_face_sets(fc)
                         THEN {SCULPT_BOUNDARY_MESH, SCULPT_BOUNDARY_FACE_SET}
                         ELSE {SCULPT_BOUNDARY_MESH}
        IN  [disp |-> sub_v3_v3v3(SCULPT_relax_vertex(co, v, clamp_f(fade, 0, One),
                                                      boundtype), co[v]),
             fade |-> fade, lap |-> NULL]
    ELSE IF filter_type = MESH_FILTER_SURFACE_SMOOTH THEN
        LET r == SCULPT_surface_smooth_laplacian_step(
                     co, v, SCULPT_orig_vert_data_co(undo, co, v), One)
        IN  [disp |-> r.disp, fade |-> fade, lap |-> r.laplacian_disp]
    ELSE IF filter_type = MESH_FILTER_SHARPEN THEN
        [disp |-> SharpenDisp(v, fc), fade |-> clamp_f(fade, 0, One \div 2),
         lap |-> NULL]
    ELSE IF filter_type = MESH_FILTER_ENHANCE_DETAILS THEN
        [disp |-> mul_v3_v3fl(fc.detail_directions[v], -Abs(fade)),
         fade |-> fade, lap |-> NULL]
    ELSE
        LET f == clamp_f(fade, -One, One)
        IN  [disp |-> mul_v3_v3fl(sub_v3_v3v3(fc.limit_surface_co[v], orig_co), f),
             fade |-> f, lap |-> NULL]

\* Lines 552-557: the position written back.
FinalPos(filter_type, v, orig_co, disp, fade) ==
    IF filter_type \in {MESH_FILTER_SURFACE_SMOOTH, MESH_FILTER_SHARPEN}
    THEN madd_v3_v3v3fl(co[v], disp, clamp_f(fade, 0, One))
    ELSE add_v3_v3v3(orig_co, disp)

\* The vertices whose live position the switch reads for v: v itself and,
\* for the kinds that query neighbour coordinates, its neighbours.
CoReads(filter_type, v) ==
    IF filter_type \in { MESH_FILTER_SMOOTH, MESH_FILTER_RELAX,
                         MESH_FILTER_RELAX_FACE_SETS, MESH_FILTER_SURFACE_SMOOTH,
                         MESH_FILTER_SHARPEN }
    THEN {v} \cup {Neighbors(v)[k] : k \in DOMAIN Neighbors(v)}
    ELSE {v}

\* Lines 544-562: what the loop body does to a vertex it does not skip,
\* given orig_co and the result sw of the switch.
VertexWrite(filter_type, v, orig_co, sw, fc) ==
    [write |-> TRUE,
     final_pos |-> FinalPos(filter_type, v, orig_co,
                            ZeroDisabledAxis(sw.disp, fc), sw.fade),
     lap |-> sw.lap,
     reads |-> CoReads(filter_type, v)]

VertexWith(filter_type, v, fade, orig_co, fc) ==
    IF SkipZeroFade(filter_type, fade) \/ SkipFaceSet(filter_type, v, fc)
    THEN [write |-> FALSE, final_pos |-> co[v], lap |-> NULL, reads |-> {}]
    ELSE VertexWrite(filter_type, v, orig_co,
                     FilterSwitch(filter_type, v, fade, orig_co, fc), fc)

\* The body of the vertex loop of mesh_filter_task_cb for one vertex.
TaskCbVertex(v) ==
    VertexWith(data.filter_type, v, Fade(v, data.filter_strength, filter_cache),
               OrigCoOf(data.filter_type, v, filter_cache), filter_cache)

\* The body of the vertex loop of mesh_filter_surface_smooth_displace_task_cb.
DisplaceCbVertex(v) ==
    LET fc == filter_cache
        fade == Fade(v, data.filter_strength, fc)
    IN  IF fade = 0
        THEN [write |-> FALSE, final_pos |-> co[v]]
        ELSE [write |-> TRUE,
              final_pos |-> SCULPT_surface_smooth_displace_step(
                                co, laplacian_disp, v,
                                fc.surface_smooth_current_vertex,
                                clamp_f(fade, 0, One))]

\* ------------------------------------------------------------- operator
\* event->prev_press_xy: where the button went down.
PressXY == <<1000, 0>>

\* event->xy of the motion samples the model draws.
MouseSamples == { <<500, 0>>, <<1000, 750>>, <<2000, 0>> }

\* Event types handed to the modal callback besides MOUSEMOVE and the
\* release of LEFTMOUSE: the key a user presses to abort.
OtherEvents == { "EVT_ESCKEY" }

\* The values of the "iteration_count" property exec is called with.
IterationChoices == {1, 2}

\* RNA_float_set on "strength": the property is limited to -10 .. 10.
RNA_float_set_strength(value) == clamp_f(value, -10 * One, 10 * One)

\* A strength that follows the offset of the pointer along both axes.
StrengthFromBothAxes(start_filter_strength, prev_press_mouse, mouse) ==
    LET len == (prev_press_mouse[1] - mouse[1]) + (prev_press_mouse[2] - mouse[2])
    IN  RNA_float_set_strength(
            TruncDiv(start_filter_strength * (-len) * UI_DPI_FAC, StrengthDivisor))

\* sculpt_mesh_update_strength: the value stored in "strength".
sculpt_mesh_update_strength(start_filter_strength, prev_press_mouse, mouse) ==
    LET len == prev_press_mouse[1] - mouse[1]
    IN  RNA_float_set_strength(
            TruncDiv(start_filter_strength * (-len) * UI_DPI_FAC, StrengthDivisor))

\* A test of the axis mask that no mask meets.
AxisMaskNegative(deform_axis) == deform_axis < 0

\* Line 918 of sculpt_mesh_filter_start: all axes are disabled.
AxisMaskEmpty(deform_axis) == deform_axis = 0

EmptyAcc == [reads |-> [n \in Nodes |-> {}], writes |-> [n \in Nodes |-> {}],
             lap |-> {}]

NodeSet(fc) == {fc.nodes[k] : k \in DOMAIN fc.nodes}

\* A range that returns as soon as one of its tasks has run.
AnyTaskReturned(fc) ==
    \E n \in NodeSet(fc) : task_pos[n] > Len(BKE_pbvh_vertex_iter(n))

\* BLI_task_parallel_range returns: every task of the range has run.
ParallelRangeJoined(fc) ==
    \A n \in NodeSet(fc) : task_pos[n] > Len(BKE_pbvh_vertex_iter(n))

\* Line 748: ELEM(MESH_FILTER_RELAX, MESH_FILTER_RELAX_FACE_SETS) compares the
\* two enumerators with each other.
ApplyUpdatesNormals(filter_type) == MESH_FILTER_RELAX = MESH_FILTER_RELAX_FACE_SETS

\* Lines 708-731 of sculpt_mesh_filter_apply: the task data is filled from
\* the properties o and the first parallel range is started.
ApplyBegin(o) ==
    /\ data' = [filter_type |-> o.type, filter_strength |-> o.strength]
    /\ task_pos' = [n \in Nodes |-> 1]
    /\ acc' = EmptyAcc
    /\ applied' = Append(applied, o.strength)
    /\ pc' = "task_cb"

\* An apply that draws a new random_seed when it returns.
ApplyTailReseeds(fc) ==
    [fc EXCEPT !.iteration_count = @ + 1, !.random_seed = 1 - @]

\* An apply that leaves iteration_count as it is.
ApplyTailWithoutCount(fc) == fc

\* Lines 741-752 of sculpt_mesh_filter_apply: the cache and the PBVH after
\* the parallel ranges.
ApplyTailCache(fc) == [fc EXCEPT !.iteration_count = @ + 1]

ApplyTailPbvh(filter_type) ==
    [update_normal |-> IF ApplyUpdatesNormals(filter_type) THEN {} ELSE pbvh.update_normal,
     node_update |-> {}]

\* SCULPT_filter_cache_free: the session holds no cache afterwards.
SCULPT_filter_cache_free(fc) == NoCache

\* No block of a cache is live and nothing has been counted.
NoMem ==
    [live |-> {}, allocs |-> 0, frees |-> 0, stray_frees |-> 0, cache_inits |-> 0,
     automask_inits |-> 0, automask_frees |-> 0, undo_begins |-> 0, undo_ends |-> 0]

\* The heap blocks SCULPT_filter_cache_init and sculpt_mesh_filter_start
\* allocate for the properties o: the cache (MEM_cnew), the gathered node
\* array, the automasking cache when automasking is enabled, and the
\* buffers of the kind.
AllocatedBlocks(o, automask_enabled) ==
    {"filter_cache", "nodes"}
        \cup (IF automask_enabled THEN {"automasking"} ELSE {})
        \cup (IF o.type = MESH_FILTER_SHARPEN
              THEN {"sharpen_factor", "detail_directions"} ELSE {})
        \cup (IF o.type = MESH_FILTER_ENHANCE_DETAILS
              THEN {"detail_directions"} ELSE {})
        \cup (IF o.type = MESH_FILTER_ERASE_DISPLACEMENT
              THEN {"limit_surface_co"} ELSE {})

\* Lines 939-981 of sculpt_mesh_filter_start on the bookkeeping: one undo
\* begin, one cache, one automasking cache if enabled, and the blocks.
MemAfterStart(m, o, automask_enabled) ==
    LET blocks == AllocatedBlocks(o, automask_enabled)
    IN  [m EXCEPT !.live = @ \cup blocks,
                  !.allocs = @ + Cardinality(blocks),
                  !.cache_inits = @ + 1,
                  !.automask_inits = @ + (IF automask_enabled THEN 1 ELSE 0),
                  !.undo_begins = @ + 1]

\* A free that passes the automasking cache by.
FreedBlocksWithoutAutomasking(fc) ==
    {"nodes", "filter_cache"}
        \cup (IF fc.sharpen_factor # NULL THEN {"sharpen_factor"} ELSE {})
        \cup (IF fc.detail_directions # NULL THEN {"detail_directions"} ELSE {})
        \cup (IF fc.limit_surface_co # NULL THEN {"limit_surface_co"} ELSE {})

\* Lines 244-259 of SCULPT_filter_cache_free: the blocks it frees, those
\* of its list whose pointer in the cache is set, and the cache itself.
FreedBlocks(fc) ==
    (IF fc.automasking # NULL THEN {"automasking"} ELSE {})
        \cup {"nodes"}
        \cup (IF fc.sharpen_factor # NULL THEN {"sharpen_factor"} ELSE {})
        \cup (IF fc.detail_directions # NULL THEN {"detail_directions"} ELSE {})
        \cup (IF fc.limit_surface_co # NULL THEN {"limit_surface_co"} ELSE {})
        \cup {"filter_cache"}

\* SCULPT_filter_cache_free on the bookkeeping; a free of a block that is
\* not live is counted as stray.
MemAfterFree(m, fc) ==
    [m EXCEPT !.live = @ \ FreedBlocks(fc),
              !.frees = @ + Cardinality(FreedBlocks(fc)),
              !.stray_frees = @ + Cardinality(FreedBlocks(fc) \ m.live),
              !.automask_frees = @ + (IF "automasking" \in FreedBlocks(fc)
                                      THEN 1 ELSE 0)]

\* SCULPT_undo_push_end on the bookkeeping.
MemAfterUndoEnd(m) == [m EXCEPT !.undo_ends = @ + 1]

\* The record kept of a finished run.
RunRecord(path, o, final_co, fc) ==
    [path |-> path, type |-> o.type, iteration_count |-> o.iteration_count,
     history |-> o.event_history, start_filter_strength |-> fc.start_filter_strength,
     random_seed |-> fc.random_seed,
     start_co |-> start_co, final_co |-> final_co, applied |-> applied,
     cache_iteration_count |-> fc.iteration_count]

\* A start that begins the undo record and builds no cache.
StartWithoutCache(o, fc) ==
    /\ undo' = PushNodes(SCULPT_undo_push_begin, co, fc.nodes)
    /\ filter_cache' = filter_cache
    /\ mem' = [mem EXCEPT !.undo_begins = @ + 1]
    /\ start_co' = co

\* sculpt_mesh_filter_start on success: undo begin, the cache, the snapshot
\* of every gathered node.
StartEffects(o, fc) ==
    /\ undo' = PushNodes(SCULPT_undo_push_begin, co, fc.nodes)
    /\ filter_cache' = fc
    /\ mem' = MemAfterStart(mem, o, use_automasking)
    /\ start_co' = co

Seeds(type) == IF type = MESH_FILTER_RANDOM THEN RandomSeeds ELSE {0}

RECURSIVE AppliesOf(_)
\* The apply calls the finished runs d have made.
AppliesOf(d) == IF d = << >> THEN 0 ELSE Len(Head(d).applied) + AppliesOf(Tail(d))

\* The apply calls exec makes with the properties o: one per outer
\* iteration, or one per replayed item of the history in each of them.
ExecApplies(o) ==
    o.iteration_count *
        (IF Len(o.event_history) = 0 THEN 1 ELSE Len(o.event_history) - 1)

sculpt_mesh_filter_invoke ==
    /\ pc = "idle" /\ runs = 0
    /\ last_call' = "invoke"
    /\ event' = None
    /\ \E seed \in Seeds(op.type) :
        LET o == [op EXCEPT !.start_mouse = PressXY]
            fc == NewFilterCache(co, o, use_automasking, seed)
        IN  IF AxisMaskEmpty(o.deform_axis)
            THEN /\ ret' = OPERATOR_CANCELLED
                 /\ op' = o
                 /\ UNCHANGED << co, mask, use_automasking, undo, filter_cache,
                                 laplacian_disp, pbvh, handler, pc, ctx, data,
                                 task_pos, exec_i, hist_i, runs, acc, applied,
                                 start_co, done, mem >>
            ELSE /\ StartEffects(o, fc)
                 /\ runs' = runs + 1
                 /\ op' = o
                 /\ pbvh' = [pbvh EXCEPT !.update_normal = {}]
                 /\ applied' = << >>
                 /\ handler' = TRUE
                 /\ ret' = OPERATOR_RUNNING_MODAL
                 /\ pc' = "modal"
                 /\ ctx' = "modal"
                 /\ UNCHANGED << co, mask, use_automasking, laplacian_disp, data,
                                 task_pos, exec_i, hist_i, acc, done >>

\* A history that is started again with every motion sample.
HistoryRestarted(o, xy) ==
    IF sculpt_mesh_filter_is_continuous(o.type)
    THEN <<[mouse_event |-> PressXY, pressure |-> 0],
           [mouse_event |-> xy, pressure |-> One]>>
    ELSE o.event_history

\* A history without the entry of the press position.
HistoryWithoutPress(o, xy) ==
    IF sculpt_mesh_filter_is_continuous(o.type)
    THEN Append(o.event_history, [mouse_event |-> xy, pressure |-> One])
    ELSE o.event_history

\* Lines 868-884: the history after a motion sample.
HistoryAfterMove(o, xy) ==
    IF sculpt_mesh_filter_is_continuous(o.type)
    THEN (IF Len(o.event_history) = 0
          THEN <<[mouse_event |-> PressXY, pressure |-> 0]>>
          ELSE o.event_history)
         \o <<[mouse_event |-> xy, pressure |-> One]>>
    ELSE o.event_history

\* sculpt_mesh_filter_modal on MOUSEMOVE, up to the start of the parallel
\* range of sculpt_mesh_filter_apply, in a run of at most max_moves motion
\* samples.
ModalMove(xy, max_moves) ==
    /\ pc = "modal" /\ Len(applied) < max_moves
    /\ event' = "MOUSEMOVE"
    /\ last_call' = "modal"
    /\ LET o == [op EXCEPT
                    !.event_history = HistoryAfterMove(op, xy),
                    !.strength = sculpt_mesh_update_strength(
                                     filter_cache.start_filter_strength, PressXY, xy)]
       IN  /\ op' = o
           /\ ApplyBegin(o)
    /\ ctx' = "modal"
    /\ UNCHANGED << co, mask, use_automasking, undo, filter_cache, laplacian_disp,
                    pbvh, handler, ret, exec_i, hist_i, runs, start_co, done,
                    mem >>

sculpt_mesh_filter_modal_move(xy) == ModalMove(xy, MaxMoves)

\* A finish that ends the undo record twice.
sculpt_mesh_filter_end_twice ==
    /\ filter_cache' = SCULPT_filter_cache_free(filter_cache)
    /\ undo' = SCULPT_undo_push_end(SCULPT_undo_push_end(undo))
    /\ mem' = MemAfterUndoEnd(MemAfterUndoEnd(MemAfterFree(mem, filter_cache)))

\* sculpt_mesh_filter_end
sculpt_mesh_filter_end ==
    /\ filter_cache' = SCULPT_filter_cache_free(filter_cache)
    /\ undo' = SCULPT_undo_push_end(undo)
    /\ mem' = MemAfterUndoEnd(MemAfterFree(mem, filter_cache))

\* sculpt_mesh_filter_modal on the release of LEFTMOUSE.
sculpt_mesh_filter_modal_release ==
    /\ pc = "modal"
    /\ event' = "LEFTMOUSE_RELEASE"
    /\ sculpt_mesh_filter_end
    /\ op' = IF sculpt_mesh_filter_is_continuous(op.type)
             THEN [op EXCEPT !.strength =
                      RNA_float_set_strength(filter_cache.start_filter_strength)]
             ELSE op
    /\ ret' = OPERATOR_FINISHED
    /\ handler' = FALSE
    /\ pc' = "idle"
    /\ last_call' = "modal"
    /\ done' = Append(done, RunRecord("modal", op, co, filter_cache))
    /\ UNCHANGED << co, mask, use_automasking, laplacian_disp, pbvh, ctx, data,
                    task_pos, exec_i, hist_i, runs, acc, applied, start_co >>

\* A callback that takes any other event for the end of the run.
ModalOtherFinishes(type) ==
    /\ pc = "modal"
    /\ event' = type
    /\ ret' = OPERATOR_FINISHED
    /\ last_call' = "modal"
    /\ handler' = FALSE
    /\ pc' = "idle"
    /\ UNCHANGED << co, mask, use_automasking, undo, filter_cache, laplacian_disp,
                    pbvh, op, ctx, data, task_pos, exec_i, hist_i,
                    runs, acc, applied, start_co, done, mem >>

\* sculpt_mesh_filter_modal on any other event.
sculpt_mesh_filter_modal_other(type) ==
    /\ pc = "modal"
    /\ event' = type
    /\ ret' = OPERATOR_RUNNING_MODAL
    /\ last_call' = "modal"
    /\ UNCHANGED << co, mask, use_automasking, undo, filter_cache, laplacian_disp,
                    pbvh, op, handler, pc, ctx, data, task_pos, exec_i, hist_i,
                    runs, acc, applied, start_co, done, mem >>

\* A restore loop that stops one node short of the gathered nodes.
CancelRestoreShort(u, c, nodes) ==
    [v \in Verts |->
        IF \E i \in 1 .. Len(nodes) - 1 : nodes[i] = NodeOf(v)
        THEN OrigCo(u, v) ELSE c[v]]

\* Lines 821-836 of sculpt_mesh_filter_cancel: the positions after the loop
\* over the gathered nodes has copied orig_data.co to every vertex.
CancelRestore(u, c, nodes) ==
    [v \in Verts |->
        IF \E i \in 1 .. Len(nodes) : nodes[i] = NodeOf(v)
        THEN OrigCo(u, v) ELSE c[v]]

\* sculpt_mesh_filter_cancel.  SCULPT_OT_mesh_filter registers no cancel
\* callback and nothing in the file calls the function; the model lets the
\* host call it between two events of a modal run, which ends the run (the
\* host drops the handler of an operator it cancels).
sculpt_mesh_filter_cancel ==
    /\ pc = "modal"
    /\ LET u == PushNodes(undo, co, GatherNodes)
       IN  /\ undo' = u
           /\ co' = CancelRestore(u, co, GatherNodes)
    /\ pbvh' = [pbvh EXCEPT !.node_update = {}]
    /\ last_call' = "cancel"
    /\ event' = None
    /\ handler' = FALSE
    /\ pc' = "cancelled"
    /\ UNCHANGED << mask, use_automasking, filter_cache, laplacian_disp, op,
                    ret, ctx, data, task_pos, exec_i, hist_i, runs,
                    acc, applied, start_co, done, mem >>

\* ------------------------------------------------------- parallel passes
\* One vertex of the task of node n running mesh_filter_task_cb; with the
\* last vertex the node is marked for update.
TaskCbStore(n, v, r) ==
    /\ co' = IF r.write THEN [co EXCEPT ![v] = r.final_pos] ELSE co
    /\ laplacian_disp' = IF r.lap # NULL
                         THEN [laplacian_disp EXCEPT ![v] = r.lap]
                         ELSE laplacian_disp
    /\ pbvh' = [update_normal |->
                   IF r.write THEN pbvh.update_normal \cup {v}
                   ELSE pbvh.update_normal,
                node_update |->
                   IF task_pos[n] = Len(BKE_pbvh_vertex_iter(n))
                   THEN pbvh.node_update \cup {n} ELSE pbvh.node_update]
    /\ acc' = [reads |-> [acc.reads EXCEPT ![n] = @ \cup r.reads],
               writes |-> [acc.writes EXCEPT ![n] =
                              IF r.write THEN @ \cup {v} ELSE @],
               lap |-> IF r.lap # NULL THEN acc.lap \cup {v} ELSE acc.lap]

mesh_filter_task_cb(n) ==
    /\ pc = "task_cb"
    /\ n \in NodeSet(filter_cache)
    /\ task_pos[n] <= Len(BKE_pbvh_vertex_iter(n))
    /\ TaskCbStore(n, BKE_pbvh_vertex_iter(n)[task_pos[n]],
                   TaskCbVertex(BKE_pbvh_vertex_iter(n)[task_pos[n]]))
    /\ undo' = SCULPT_undo_push_node(undo, co, n)
    /\ task_pos' = [task_pos EXCEPT ![n] = @ + 1]
    /\ UNCHANGED << mask, use_automasking, filter_cache, op, handler, ret, pc,
                    ctx, data, exec_i, hist_i, runs, event, last_call, applied,
                    start_co, done, mem >>

\* Lines 733-739 of sculpt_mesh_filter_apply: the first range has returned
\* and Surface Smooth starts the second one.
sculpt_mesh_filter_apply_second_range ==
    /\ pc = "task_cb"
    /\ ParallelRangeJoined(filter_cache)
    /\ data.filter_type = MESH_FILTER_SURFACE_SMOOTH
    /\ pc' = "displace_cb"
    /\ task_pos' = [n \in Nodes |-> 1]
    /\ acc' = [EmptyAcc EXCEPT !.lap = acc.lap]
    /\ UNCHANGED << co, mask, use_automasking, undo, filter_cache, laplacian_disp,
                    pbvh, op, handler, ret, ctx, data, exec_i, hist_i, runs, event,
                    last_call, applied, start_co, done, mem >>

DisplaceCbStore(n, v, r) ==
    /\ co' = IF r.write THEN [co EXCEPT ![v] = r.final_pos] ELSE co
    /\ acc' = [acc EXCEPT !.reads[n] = IF r.write THEN @ \cup {v} ELSE @,
                          !.writes[n] = IF r.write THEN @ \cup {v} ELSE @]

\* One vertex of the task of node n running
\* mesh_filter_surface_smooth_displace_task_cb.
mesh_filter_surface_smooth_displace_task_cb(n) ==
    /\ pc = "displace_cb"
    /\ n \in NodeSet(filter_cache)
    /\ task_pos[n] <= Len(BKE_pbvh_vertex_iter(n))
    /\ DisplaceCbStore(n, BKE_pbvh_vertex_iter(n)[task_pos[n]],
                       DisplaceCbVertex(BKE_pbvh_vertex_iter(n)[task_pos[n]]))
    /\ task_pos' = [task_pos EXCEPT ![n] = @ + 1]
    /\ UNCHANGED << mask, use_automasking, undo, filter_cache, laplacian_disp, pbvh,
                    op, handler, ret, pc, ctx, data, exec_i, hist_i, runs, event,
                    last_call, applied, start_co, done, mem >>

\* An apply that goes on as soon as its first range has returned.
ApplyFirstRangeDone ==
    /\ pc \in {"task_cb", "displace_cb"}
    /\ ParallelRangeJoined(filter_cache)

\* The last parallel range of the running apply has returned.
ApplyRangesDone ==
    /\ \/ pc = "displace_cb"
       \/ pc = "task_cb" /\ data.filter_type # MESH_FILTER_SURFACE_SMOOTH
    /\ ParallelRangeJoined(filter_cache)

\* The rest of sculpt_mesh_filter_apply and the return of
\* sculpt_mesh_filter_modal for a motion sample.
sculpt_mesh_filter_modal_return ==
    /\ ctx = "modal"
    /\ ApplyRangesDone
    /\ filter_cache' = ApplyTailCache(filter_cache)
    /\ pbvh' = ApplyTailPbvh(data.filter_type)
    /\ ret' = OPERATOR_RUNNING_MODAL
    /\ pc' = "modal"
    /\ UNCHANGED << co, mask, use_automasking, undo, laplacian_disp, op, handler,
                    ctx, data, task_pos, exec_i, hist_i, runs, event, last_call,
                    acc, applied, start_co, done, mem >>

\* ------------------------------------------------------------------ exec
\* A replay that does not skip the first item of the history: its first
\* apply measures the press position against itself.
ReplayFromFirstItem(o, fc) ==
    IF Len(o.event_history) = 0 THEN o
    ELSE [o EXCEPT !.strength = sculpt_mesh_update_strength(
                       fc.start_filter_strength,
                       o.event_history[1].mouse_event,
                       o.event_history[1].mouse_event)]

\* Lines 765-790 of sculpt_mesh_filter_apply_with_history, up to its first
\* apply: without a history the strength property is applied as it is; with
\* one, the first item is the press position and the second the first
\* replayed sample.
ReplayFirst(o, fc) ==
    IF Len(o.event_history) = 0 THEN o
    ELSE [o EXCEPT !.strength = sculpt_mesh_update_strength(
                       fc.start_filter_strength,
                       o.event_history[1].mouse_event,
                       o.event_history[2].mouse_event)]

sculpt_mesh_filter_exec ==
    /\ pc = "idle"
    /\ last_call' = "exec"
    /\ event' = None
    /\ \E seed \in Seeds(op.type), iteration_count \in IterationChoices :
        LET op0 == [op EXCEPT !.iteration_count = iteration_count]
            fc0 == NewFilterCache(co, op0, use_automasking, seed)
            has_history == Len(op0.event_history) > 0
            fc == [fc0 EXCEPT !.no_orig_co = ~has_history]
            o == ReplayFirst(op0, fc)
        IN  IF AxisMaskEmpty(op0.deform_axis)
            THEN /\ ret' = OPERATOR_CANCELLED
                 /\ op' = op0
                 /\ UNCHANGED << co, mask, use_automasking, undo, filter_cache,
                                 laplacian_disp, pbvh, handler, pc, ctx, data,
                                 task_pos, exec_i, hist_i, runs, acc, applied,
                                 start_co, done, mem >>
            ELSE /\ AppliesOf(done) + ExecApplies(op0) <= MaxApplies
                 /\ StartEffects(op0, fc)
                 /\ runs' = runs + 1
                 /\ pbvh' = [pbvh EXCEPT !.update_normal = {}]
                 /\ exec_i' = 0
                 /\ hist_i' = IF has_history THEN 2 ELSE 0
                 /\ op' = o
                 /\ applied' = <<o.strength>>
                 /\ data' = [filter_type |-> o.type, filter_strength |-> o.strength]
                 /\ task_pos' = [n \in Nodes |-> 1]
                 /\ acc' = EmptyAcc
                 /\ pc' = "task_cb"
                 /\ ctx' = "exec"
                 /\ UNCHANGED << co, mask, use_automasking, laplacian_disp, handler,
                                 ret, done >>

\* The rest of sculpt_mesh_filter_apply inside a replay, followed by the
\* next item of the history.
sculpt_mesh_filter_apply_with_history_next ==
    /\ ctx = "exec"
    /\ ApplyRangesDone
    /\ hist_i > 0 /\ hist_i < Len(op.event_history)
    /\ filter_cache' = ApplyTailCache(filter_cache)
    /\ pbvh' = ApplyTailPbvh(data.filter_type)
    /\ hist_i' = hist_i + 1
    /\ LET o == [op EXCEPT !.strength = sculpt_mesh_update_strength(
                       filter_cache.start_filter_strength,
                       op.event_history[1].mouse_event,
                       op.event_history[hist_i + 1].mouse_event)]
       IN  /\ op' = o
           /\ ApplyBegin(o)
    /\ UNCHANGED << co, mask, use_automasking, undo, laplacian_disp, handler, ret,
                    ctx, exec_i, runs, event, last_call, start_co, done, mem >>

\* A replay that may end after any item of the history.
ReplayEndsAfterAnyItem ==
    /\ ctx = "exec"
    /\ ApplyRangesDone

\* A replay that may end before the last item of the history.
ReplayEndsBeforeLastItem ==
    /\ ctx = "exec"
    /\ ApplyRangesDone
    /\ ~(hist_i > 0 /\ hist_i < Len(op.event_history) - 1)

\* sculpt_mesh_filter_apply_with_history has applied its last item.
ReplayEnds ==
    /\ ctx = "exec"
    /\ ApplyRangesDone
    /\ ~(hist_i > 0 /\ hist_i < Len(op.event_history))

\* A replay that leaves the strength of its last item in the property.
StrengthLeftByReplay(o, fc) == o

\* Line 794: after a replay the strength property is reset.
StrengthAfterReplay(o, fc) ==
    IF Len(o.event_history) = 0 THEN o
    ELSE [o EXCEPT !.strength = RNA_float_set_strength(fc.start_filter_strength)]

\* Lines 1022-1026 of sculpt_mesh_filter_exec: an outer iteration ends,
\* no_orig_co is set and the next outer iteration starts.
sculpt_mesh_filter_exec_next ==
    /\ ReplayEnds
    /\ exec_i + 1 < op.iteration_count
    /\ exec_i' = exec_i + 1
    /\ LET fc == [ApplyTailCache(filter_cache) EXCEPT !.no_orig_co = TRUE]
           o == ReplayFirst(StrengthAfterReplay(op, fc), fc)
       IN  /\ filter_cache' = fc
           /\ op' = o
           /\ ApplyBegin(o)
    /\ pbvh' = ApplyTailPbvh(data.filter_type)
    /\ hist_i' = IF Len(op.event_history) > 0 THEN 2 ELSE 0
    /\ UNCHANGED << co, mask, use_automasking, undo, laplacian_disp, handler, ret,
                    ctx, runs, event, last_call, start_co, done, mem >>

\* Lines 1022-1030 of sculpt_mesh_filter_exec: the last outer iteration
\* ends and the operator finishes.
sculpt_mesh_filter_exec_end ==
    /\ ReplayEnds
    /\ ~(exec_i + 1 < op.iteration_count)
    /\ exec_i' = exec_i + 1
    /\ LET fc == [ApplyTailCache(filter_cache) EXCEPT !.no_orig_co = TRUE]
           o == StrengthAfterReplay(op, fc)
       IN  /\ op' = o
           /\ done' = Append(done, RunRecord("exec", o, co, fc))
    /\ sculpt_mesh_filter_end
    /\ pbvh' = ApplyTailPbvh(data.filter_type)
    /\ ret' = OPERATOR_FINISHED
    /\ pc' = "idle"
    /\ UNCHANGED << co, mask, use_automasking, laplacian_disp, handler, ctx, data,
                    task_pos, hist_i, runs, event, last_call, acc, applied,
                    start_co >>

\* ED_undo_pop of the record of a finished interactive run, as redoing the
\* operator does before it calls exec: the coordinates of the record are
\* put back.
ED_undo ==
    /\ pc = "idle"
    /\ last_call = "modal" /\ ret = OPERATOR_FINISHED
    /\ AppliesOf(done) < MaxApplies
    /\ co' = [v \in Verts |-> OrigCo(undo, v)]
    /\ last_call' = "undo"
    /\ event' = None
    /\ UNCHANGED << mask, use_automasking, undo, filter_cache, laplacian_disp, pbvh,
                    op, handler, ret, pc, ctx, data, task_pos, exec_i, hist_i, runs,
                    acc, applied, start_co, done, mem >>

\* ----------------------------------------------------------- behaviours
\* The deform_axis masks and orientations the model runs with: no axis,
\* every axis, and a partial mask in the world and in the view frame.
FrameChoices ==
    { <<0, SCULPT_FILTER_ORIENTATION_LOCAL>>, <<7, SCULPT_FILTER_ORIENTATION_LOCAL>>,
      <<3, SCULPT_FILTER_ORIENTATION_WORLD>>, <<5, SCULPT_FILTER_ORIENTATION_VIEW>> }
\* The paint mask and whether automasking is enabled: neither, or a mask
\* that protects vertex 3 fully and vertex 1 by half, with automasking.
MaskingChoices ==
    { <<[v \in Verts |-> 0], FALSE>>,
      <<[v \in Verts |-> IF v = 3 THEN One ELSE IF v = 1 THEN One \div 2 ELSE 0],
        TRUE>> }

InitOp(type, deform_axis, orientation) ==
    [ type |-> type,
      strength |-> One,
      iteration_count |-> 1,
      deform_axis |-> deform_axis,
      orientation |-> orientation,
      start_mouse |-> <<0, 0>>,
      event_history |-> << >>,
      surface_smooth_shape_preservation |-> One \div 2,
      surface_smooth_current_vertex |-> One \div 2,
      sharpen_smooth_ratio |-> One \div 4,
      sharpen_intensify_detail_strength |-> One,
      sharpen_curvature_smooth_iterations |-> 1 ]

Init ==
    /\ co = MeshCo
    /\ \E mc \in MaskingChoices : mask = mc[1] /\ use_automasking = mc[2]
    /\ undo = NoUndo
    /\ filter_cache = NoCache
    /\ laplacian_disp = [v \in Verts |-> ZeroV]
    /\ pbvh = [update_normal |-> {}, node_update |-> {}]
    /\ \E type \in eSculptMeshFilterType, frame \in FrameChoices :
            op = InitOp(type, frame[1], frame[2])
    /\ handler = FALSE
    /\ ret = None
    /\ pc = "idle"
    /\ ctx = None
    /\ data = [filter_type |-> None, filter_strength |-> 0]
    /\ task_pos = [n \in Nodes |-> 1]
    /\ exec_i = 0
    /\ hist_i = 0
    /\ runs = 0
    /\ event = None
    /\ last_call = None
    /\ acc = EmptyAcc
    /\ applied = << >>
    /\ start_co = MeshCo
    /\ done = << >>
    /\ mem = NoMem

Next ==
    \/ sculpt_mesh_filter_invoke
    \/ \E xy \in MouseSamples : sculpt_mesh_filter_modal_move(xy)
    \/ sculpt_mesh_filter_modal_release
    \/ \E type \in OtherEvents : sculpt_mesh_filter_modal_other(type)
    \/ sculpt_mesh_filter_cancel
    \/ \E n \in Nodes : mesh_filter_task_cb(n)
    \/ sculpt_mesh_filter_apply_second_range
    \/ \E n \in Nodes : mesh_filter_surface_smooth_displace_task_cb(n)
    \/ sculpt_mesh_filter_modal_return
    \/ sculpt_mesh_filter_exec
    \/ sculpt_mesh_filter_apply_with_history_next
    \/ sculpt_mesh_filter_exec_next
    \/ sculpt_mesh_filter_exec_end
    \/ ED_undo

Spec == Init /\ [][Next]_vars

\* The task of node n in a running BLI_task_parallel_range moves on to its
\* next vertex: the step of mesh_filter_task_cb or of
\* mesh_filter_surface_smooth_displace_task_cb for n, told by what it does
\* to the position of the task.
NodeTaskAdvances(n) ==
    /\ pc \in {"task_cb", "displace_cb"}
    /\ n \in NodeSet(filter_cache)
    /\ task_pos[n] <= Len(BKE_pbvh_vertex_iter(n))
    /\ task_pos' = [task_pos EXCEPT ![n] = @ + 1]

\* The straight-line code of the main thread between and after the parallel
\* ranges of sculpt_mesh_filter_apply, in sculpt_mesh_filter_modal,
\* sculpt_mesh_filter_apply_with_history and sculpt_mesh_filter_exec. None
\* of it waits for an event.
MainThreadStep ==
    \/ sculpt_mesh_filter_apply_second_range
    \/ sculpt_mesh_filter_modal_return
    \/ sculpt_mesh_filter_apply_with_history_next
    \/ sculpt_mesh_filter_exec_next
    \/ sculpt_mesh_filter_exec_end

\* The behaviours in which a call that has started keeps running: the task
\* pool runs every node task of a range to its end, and exec and a modal
\* apply are synchronous calls, so a step of the call that stays enabled is
\* eventually taken. Events (invoke, motion, release, redo) are under no
\* fairness: the user may stop sending them.
FairSpec ==
    /\ Spec
    /\ \A n \in Nodes : WF_task_pos(NodeTaskAdvances(n))
    /\ WF_vars(MainThreadStep)


\* --------------------------------------------- the Sharpen precomputation
\* The positions a vertex of the mesh handed to mesh_filter_sharpen_init
\* may have; a mesh with all three vertices at one position has no detail.
SharpenCoords == { <<0, 0, 0>>, <<8, 0, 0>>, <<0, 12, 4>>, <<0, 4, 8>> }

\* A Sharpen operator about to start on any mesh over SharpenCoords, with
\* any number of curvature smoothing iterations up to the bound.
SharpenInit ==
    /\ co \in [Verts -> SharpenCoords]
    /\ start_co = co
    /\ mask = [v \in Verts |-> 0] /\ use_automasking = FALSE
    /\ undo = NoUndo
    /\ filter_cache = NoCache
    /\ laplacian_disp = [v \in Verts |-> ZeroV]
    /\ pbvh = [update_normal |-> {}, node_update |-> {}]
    /\ \E n \in 0 .. MaxSmoothIterations :
          op = [InitOp(MESH_FILTER_SHARPEN, 7, SCULPT_FILTER_ORIENTATION_LOCAL)
                   EXCEPT !.sharpen_curvature_smooth_iterations = n]
    /\ handler = FALSE
    /\ ret = None
    /\ pc = "idle"
    /\ ctx = None
    /\ data = [filter_type |-> None, filter_strength |-> 0]
    /\ task_pos = [n \in Nodes |-> 1]
    /\ exec_i = 0
    /\ hist_i = 0
    /\ runs = 0
    /\ event = None
    /\ last_call = None
    /\ acc = EmptyAcc
    /\ applied = << >>
    /\ done = << >>
    /\ mem = NoMem

\* The operator is started, which runs the precomputation, and released.
SharpenNext ==
    \/ sculpt_mesh_filter_invoke
    \/ sculpt_mesh_filter_modal_release

SharpenSpec == SharpenInit /\ [][SharpenNext]_vars

\* ------------------------------------------- long Relax Face Sets runs
\* A Relax Face Sets operator about to be invoked.
RelaxInit == Init /\ op.type = MESH_FILTER_RELAX_FACE_SETS

\* An interactive run of up to MaxRelaxMoves motion samples.
RelaxNext ==
    \/ sculpt_mesh_filter_invoke
    \/ \E xy \in MouseSamples : ModalMove(xy, MaxRelaxMoves)
    \/ \E n \in Nodes : mesh_filter_task_cb(n)
    \/ sculpt_mesh_filter_modal_return
    \/ sculpt_mesh_filter_modal_release

RelaxSpec == RelaxInit /\ [][RelaxNext]_vars

\* ------------------------------------------ strengths beyond the clamps
\* The kinds whose rule clamps fade.
ClampedKinds ==
    { MESH_FILTER_SMOOTH, MESH_FILTER_ERASE_DISPLACEMENT, MESH_FILTER_RELAX,
      MESH_FILTER_RELAX_FACE_SETS, MESH_FILTER_SHARPEN, MESH_FILTER_SURFACE_SMOOTH }

\* Values of the "strength" property over its range -10 .. 10: the ends,
\* and values inside and outside each interval the rules clamp to.
ClampStrengths ==
    { -10 * One, -(One + One \div 2), -(One \div 2), 0, One \div 4,
      (3 * One) \div 4, One + One \div 2, 10 * One }

\* An operator of a clamping kind with any of these strengths, about to be
\* executed.
ClampInit ==
    /\ co = MeshCo
    /\ \E mc \in MaskingChoices : mask = mc[1] /\ use_automasking = mc[2]
    /\ undo = NoUndo
    /\ filter_cache = NoCache
    /\ laplacian_disp = [v \in Verts |-> ZeroV]
    /\ pbvh = [update_normal |-> {}, node_update |-> {}]
    /\ \E type \in ClampedKinds, frame \in FrameChoices, s \in ClampStrengths :
            op = [InitOp(type, frame[1], frame[2]) EXCEPT !.strength = s]
    /\ handler = FALSE
    /\ ret = None
    /\ pc = "idle"
    /\ ctx = None
    /\ data = [filter_type |-> None, filter_strength |-> 0]
    /\ task_pos = [n \in Nodes |-> 1]
    /\ exec_i = 0
    /\ hist_i = 0
    /\ runs = 0
    /\ event = None
    /\ last_call = None
    /\ acc = EmptyAcc
    /\ applied = << >>
    /\ start_co = MeshCo
    /\ done = << >>
    /\ mem = NoMem

\* sculpt_mesh_filter_exec without a history applies the strength property
\* as it is, iteration_count times.
ClampNext ==
    \/ sculpt_mesh_filter_exec
    \/ \E n \in Nodes : mesh_filter_task_cb(n)
    \/ sculpt_mesh_filter_apply_second_range
    \/ \E n \in Nodes : mesh_filter_surface_smooth_displace_task_cb(n)
    \/ sculpt_mesh_filter_exec_next
    \/ sculpt_mesh_filter_exec_end

ClampSpec == ClampInit /\ [][ClampNext]_vars

\* ------------------------------------------- every orientation frame
\* Kinds whose displacement has components along every axis of the mesh.
OrientKinds == { MESH_FILTER_SCALE, MESH_FILTER_INFLATE }

\* Each orientation with all three axes enabled and with one disabled.
OrientFrames ==
    { <<axis, o>> : axis \in {7, 3},
                    o \in { SCULPT_FILTER_ORIENTATION_LOCAL,
                            SCULPT_FILTER_ORIENTATION_WORLD,
                            SCULPT_FILTER_ORIENTATION_VIEW } }

\* An operator of one of these kinds and frames, about to be invoked.
OrientInit ==
    /\ co = MeshCo
    /\ \E mc \in MaskingChoices : mask = mc[1] /\ use_automasking = mc[2]
    /\ undo = NoUndo
    /\ filter_cache = NoCache
    /\ laplacian_disp = [v \in Verts |-> ZeroV]
    /\ pbvh = [update_normal |-> {}, node_update |-> {}]
    /\ \E type \in OrientKinds, frame \in OrientFrames :
            op = InitOp(type, frame[1], frame[2])
    /\ handler = FALSE
    /\ ret = None
    /\ pc = "idle"
    /\ ctx = None
    /\ data = [filter_type |-> None, filter_strength |-> 0]
    /\ task_pos = [n \in Nodes |-> 1]
    /\ exec_i = 0
    /\ hist_i = 0
    /\ runs = 0
    /\ event = None
    /\ last_call = None
    /\ acc = EmptyAcc
    /\ applied = << >>
    /\ start_co = MeshCo
    /\ done = << >>
    /\ mem = NoMem

\* An interactive run.
OrientNext ==
    \/ sculpt_mesh_filter_invoke
    \/ \E xy \in MouseSamples : sculpt_mesh_filter_modal_move(xy)
    \/ \E n \in Nodes : mesh_filter_task_cb(n)
    \/ sculpt_mesh_filter_modal_return
    \/ sculpt_mesh_filter_modal_release

OrientSpec == OrientInit /\ [][OrientNext]_vars

\* ================================================================ claims
\* The vertices a node task owns: the unique vertices of its node.
OwnVerts(n) == {NodeVerts(n)[k] : k \in DOMAIN NodeVerts(n)}

\* The finished run j replays, right after it, the history the interactive
\* run before it recorded.
ReplaysPrevious(j) ==
    /\ j > 1
    /\ done[j - 1].path = "modal" /\ done[j].path = "exec"
    /\ Len(done[j].history) > 0
    /\ done[j].history = done[j - 1].history
    /\ done[j].start_filter_strength = done[j - 1].start_filter_strength

\* C1: whenever sculpt_mesh_filter_cancel has run on a started operator,
\* after any number of apply calls of any kind with any strengths, every
\* vertex is at the position it had before the operator started.
C1_CancelRestoresPositions ==
    last_call = "cancel" => co = start_co

\* C1, witness: a cancel after two applies, the last with a nonzero
\* strength, of Inflate on a mesh without a mask, which moved the vertices
\* and tagged their normals.
C1_CancelAfterDisplacement ==
    /\ last_call = "cancel"
    /\ op.type = MESH_FILTER_INFLATE
    /\ Len(applied) >= 2 /\ applied[Len(applied)] # 0
    /\ mask[2] = 0 /\ pbvh.update_normal = Verts

\* C2: as the claim states it, a cancel request (the abort key) that
\* arrives between two apply calls of a modal run ends the run as Cancelled,
\* with the handler removed and the positions restored.
C2_CancelRequestCancels ==
    (last_call = "modal" /\ event = "EVT_ESCKEY" /\ Len(applied) >= 1)
        => (ret = OPERATOR_CANCELLED /\ ~handler /\ co = start_co)

\* C3: as the claim states it, after sculpt_mesh_filter_cancel no
\* FilterCache remains attached to the session.
C3_CancelReleasesCache ==
    last_call = "cancel" => filter_cache = NoCache

\* C4: a start (invoke or exec) with deform_axis == 0 returns
\* OPERATOR_CANCELLED, and whenever a start has returned OPERATOR_CANCELLED
\* there is no FilterCache, no undo record was begun, no modal handler is
\* installed, no apply has run and no vertex has been written.
C4_EmptyAxisMaskRefused ==
    /\ (last_call \in {"invoke", "exec"} /\ op.deform_axis = 0)
           => ret = OPERATOR_CANCELLED
    /\ ret = OPERATOR_CANCELLED
           => /\ op.deform_axis = 0
              /\ filter_cache = NoCache
              /\ undo = NoUndo
              /\ ~handler
              /\ pc = "idle"
              /\ applied = << >> /\ done = << >>
              /\ co = MeshCo /\ pbvh.update_normal = {}

\* C4, witness: exec was called with no axis enabled and refused; no run
\* has started.
C4_RefusedExec ==
    /\ ret = OPERATOR_CANCELLED
    /\ last_call = "exec" /\ runs = 0
    /\ op.deform_axis = 0

\* C5: while the displacement pass of Surface Smooth runs, the Laplacian
\* pass of the same apply has finished on every node: the estimate of every
\* vertex of the mesh was stored before any task of the second pass started.
C5_LaplacianPassJoined ==
    pc = "displace_cb"
        => /\ data.filter_type = MESH_FILTER_SURFACE_SMOOTH
           /\ acc.lap = Verts

\* C5, witness: the second pass has displaced a vertex of one node while the
\* task of the other node has not started yet.
C5_DisplacePassRunning ==
    /\ pc = "displace_cb"
    /\ \E n, m \in Nodes : task_pos[n] > 1 /\ acc.writes[n] # {} /\ task_pos[m] = 1

\* C6: in every parallel pass each node task has written only unique
\* vertices of its own node, so no vertex was written by two tasks.
C6_TasksWriteOwnVertices ==
    /\ \A n \in Nodes : acc.writes[n] \subseteq OwnVerts(n)
    /\ \A n, m \in Nodes : n # m => acc.writes[n] \cap acc.writes[m] = {}

\* C6, witness: both tasks of the second Surface Smooth pass have written,
\* after both tasks of the first pass had.
C6_BothTasksWrote ==
    /\ pc = "displace_cb"
    /\ \A n \in Nodes : acc.writes[n] # {}
    /\ pbvh.update_normal = Verts

\* C7: as the claim states it, in every parallel pass no node task has read
\* the live position of a vertex that the task of another node has written
\* in the same pass.
C7_NoCrossNodeReads ==
    \A n, m \in Nodes : n # m => acc.reads[n] \cap acc.writes[m] = {}

\* C8: as the claim states it, when exec replays with iteration_count 1 the
\* history a modal run of a continuous kind recorded, from the same initial
\* mesh and start strength, it ends with every vertex where the modal run
\* ended.
C8_ReplayReproducesPositions ==
    \A j \in DOMAIN done :
        (/\ ReplaysPrevious(j)
         /\ sculpt_mesh_filter_is_continuous(done[j].type)
         /\ done[j].iteration_count = 1
         /\ done[j].start_co = done[j - 1].start_co)
            => done[j].final_co = done[j - 1].final_co

\* C9: when exec replays the history a modal run recorded, every pass over
\* the history makes as many apply calls as the modal run made, and the
\* i-th call of the pass uses the strength of the i-th modal call.
C9_ReplayRepeatsStrengths ==
    \A j \in DOMAIN done :
        ReplaysPrevious(j)
            => LET modal == done[j - 1].applied
                   replay == done[j].applied
               IN  /\ Len(replay) = done[j].iteration_count * Len(modal)
                   /\ \A k \in DOMAIN replay :
                          replay[k] = modal[((k - 1) % Len(modal)) + 1]

\* C9, witness: a replay, finished, of a modal run that made two apply calls
\* with different strengths.
C9_ReplayOfTwoSamples ==
    \E j \in DOMAIN done :
        /\ ReplaysPrevious(j)
        /\ done[j].iteration_count = 1
        /\ Len(done[j - 1].applied) = 2
        /\ done[j - 1].applied[1] # done[j - 1].applied[2]

\* C10: as the claim states it, once an apply with strength 0 has returned
\* in a running modal operator, every vertex is at the position it had
\* before the operator started, whatever the earlier applies did.
C10_ZeroStrengthRestoresOriginal ==
    (pc = "modal" /\ Len(applied) > 0 /\ applied[Len(applied)] = 0)
        => co = start_co

\* C11: a vertex whose paint mask is 1 is, in every state, at the position
\* it had in the mesh before any operator ran: no apply of any kind, with
\* any strength, in either pass of Surface Smooth, moves it.
C11_FullyMaskedVertexStays ==
    \A v \in Verts : mask[v] = One => co[v] = MeshCo[v]

\* C11, witness: the first pass of Surface Smooth has visited the fully
\* masked vertex 3 and written it back, and has moved vertex 2.
C11_MaskedVertexVisited ==
    /\ mask[3] = One
    /\ data.filter_type = MESH_FILTER_SURFACE_SMOOTH
    /\ pc = "displace_cb"
    /\ 3 \in pbvh.update_normal
    /\ co[2] # MeshCo[2]

\* C13: while a FilterCache exists its iteration_count is the number of
\* apply calls of the run that have returned: 0 in a new cache, one more
\* after the parallel ranges of each apply have joined, unchanged by
\* anything else.
C13_IterationCountCountsApplies ==
    filter_cache # NoCache
        => filter_cache.iteration_count =
               Len(applied) - (IF pc \in {"task_cb", "displace_cb"} THEN 1 ELSE 0)

\* C13, witness: the second apply of a run is in its second parallel range
\* and the count is still 1.
C13_SecondApplyRunning ==
    /\ filter_cache # NoCache
    /\ pc = "displace_cb"
    /\ Len(applied) = 2
    /\ filter_cache.iteration_count = 1

\* C14: as the claim states it, once an apply that wrote a vertex has
\* returned to the modal callback, the normals tagged for update have been
\* refreshed if and only if the kind is Relax or Relax Face Sets.
C14_NormalsRefreshedForRelax ==
    (pc = "modal" /\ \E n \in Nodes : acc.writes[n] # {})
        => ((pbvh.update_normal = {})
               <=> op.type \in {MESH_FILTER_RELAX, MESH_FILTER_RELAX_FACE_SETS})

\* The component of the position change of vertex v in this step along axis
\* a of the orientation frame of the cache.
StepChangeAlong(v, a) ==
    SCULPT_filter_to_orientation_space(sub_v3_v3v3(co'[v], co[v]), filter_cache)[a]

\* C12: as the claim states it, no step of either parallel range of an apply
\* changes a vertex along an axis of the orientation frame that is disabled
\* in enabled_axis, the second range of Surface Smooth included.
C12_DisabledAxisUnchanged ==
    [][(filter_cache # NoCache /\ pc \in {"task_cb", "displace_cb"})
          => \A v \in Verts : \A a \in Axes :
                 ~filter_cache.enabled_axis[a] => StepChangeAlong(v, a) = 0]_vars

\* exec is between a successful start and its return.
ExecRunning == ctx = "exec" /\ pc # "idle"

\* exec has returned Finished after its N outer iterations, each replaying
\* the history or applying once, with the cache freed and the undo record
\* ended.
ExecFinished ==
    /\ pc = "idle" /\ last_call = "exec"
    /\ ret = OPERATOR_FINISHED
    /\ exec_i = op.iteration_count
    /\ Len(applied) =
           op.iteration_count *
               (IF Len(op.event_history) = 0 THEN 1 ELSE Len(op.event_history) - 1)
    /\ filter_cache = NoCache
    /\ ~undo.open

\* C15: an exec whose start succeeded always reaches Finished, after N outer
\* iterations, with the cache freed and the undo record ended; and an exec
\* that has returned with a non-empty axis mask has returned exactly so,
\* never Cancelled and never with a cache left.
C15_ExecReachesFinished ==
    /\ ExecRunning ~> ExecFinished
    /\ [](pc = "idle" /\ last_call = "exec" /\ op.deform_axis # 0 => ExecFinished)

\* C15, witness: an exec with two outer iterations, each replaying the
\* recorded motion sample of the interactive run before it, has returned.
C15_ReplayedExecReturned ==
    /\ ExecFinished
    /\ op.iteration_count = 2
    /\ Len(op.event_history) = 2
    /\ Len(done) = 2

\* C16: in both paths the cache is built once per operation, by the start:
\* the cache exists whenever the modal callback can be called or an apply
\* is running, the number of caches built is the number of runs that have
\* finished plus the one in progress, and a step that finishes a run or
\* ends an apply starts from a state with a cache.
C16_CacheBuiltOnceByStart ==
    /\ [](/\ pc \in {"modal", "task_cb", "displace_cb"}
              => (filter_cache # NoCache /\ "filter_cache" \in mem.live)
          /\ mem.cache_inits = Len(done) + (IF pc = "idle" THEN 0 ELSE 1))
    /\ [][(mem.undo_ends' # mem.undo_ends \/ Len(applied') # Len(applied))
             => (filter_cache' # NoCache \/ filter_cache # NoCache)]_vars
    /\ [][mem.cache_inits' # mem.cache_inits
             => (pc = "idle" /\ filter_cache = NoCache
                 /\ filter_cache'.iteration_count = 0)]_vars

\* C16, witness: the exec that follows a finished interactive run is in its
\* first parallel range, on the second cache built.
C16_SecondRunHasItsCache ==
    /\ pc = "task_cb" /\ ctx = "exec"
    /\ Len(done) = 1
    /\ mem.cache_inits = 2
    /\ filter_cache # NoCache

\* C20: once a run has finished and the operator is idle, every block the
\* cache owned and the automasking cache have been freed, each once, the
\* session holds no cache, and the undo record is ended: frees match
\* allocations, automasking frees match automasking inits, undo ends match
\* undo begins; no block is ever freed that is not live.
C20_FinishReleasesEverything ==
    /\ mem.stray_frees = 0
    /\ mem.undo_ends = Len(done)
    /\ (pc = "idle" /\ Len(done) >= 1)
          => /\ filter_cache = NoCache
             /\ mem.live = {}
             /\ mem.frees = mem.allocs
             /\ mem.automask_frees = mem.automask_inits
             /\ ~undo.open
             /\ mem.undo_ends = mem.undo_begins

\* C20, witness: two Sharpen runs with automasking have finished, each with
\* its automasking cache and its two buffers.
C20_TwoSharpenRunsFinished ==
    /\ pc = "idle"
    /\ Len(done) = 2
    /\ op.type = MESH_FILTER_SHARPEN
    /\ mem.automask_frees = 2
    /\ mem.frees = 10

\* The sequence a is the beginning of the sequence b.
IsPrefix(a, b) ==
    /\ Len(a) <= Len(b)
    /\ \A i \in 1 .. Len(a) : a[i] = b[i]

\* C17: while the modal handler is installed no step removes or rewrites an
\* entry of the event history; and a non-empty history has the press
\* position in its first entry and, after it, one entry per motion sample
\* handled, in order: entry i + 1 is the position the strength of the i-th
\* apply was measured from.
C17_HistoryAppendOnly ==
    /\ [][handler => IsPrefix(op.event_history, op'.event_history)]_vars
    /\ []((handler /\ Len(op.event_history) > 0)
            => /\ op.event_history[1].mouse_event = PressXY
               /\ Len(op.event_history) = Len(applied) + 1
               /\ \A i \in 1 .. Len(applied) :
                    /\ op.event_history[i + 1].mouse_event \in MouseSamples
                    /\ sculpt_mesh_update_strength(
                           filter_cache.start_filter_strength, PressXY,
                           op.event_history[i + 1].mouse_event) = applied[i])

\* C17, witness: the modal callback has handled two different motion
\* samples and the history has three entries.
C17_TwoSamplesRecorded ==
    /\ handler /\ pc = "modal"
    /\ Len(op.event_history) = 3
    /\ op.event_history[2] # op.event_history[3]

\* C18: for a kind other than Smooth, Relax, Relax Face Sets and Sharpen the
\* event history is empty in every state, whatever motion samples the modal
\* callback has handled.
C18_HistoryOnlyForContinuousKinds ==
    op.type \notin { MESH_FILTER_SMOOTH, MESH_FILTER_RELAX,
                     MESH_FILTER_RELAX_FACE_SETS, MESH_FILTER_SHARPEN }
        => op.event_history = << >>

\* C18, witness: the modal callback has handled two motion samples of a
\* Scale run.
C18_ScaleRunAfterTwoSamples ==
    /\ op.type = MESH_FILTER_SCALE
    /\ handler /\ pc = "modal"
    /\ Len(applied) = 2
    /\ filter_cache.iteration_count = 2

\* C19: the release of the button finishes the run once (one cache free,
\* one undo end), returns Finished, removes the handler, and neither moves
\* a vertex nor begins an apply; afterwards the handler is never installed
\* again and no modal apply runs. A motion sample begins exactly one apply,
\* no other apply begins before it has returned, and its return adds one to
\* iteration_count.
C19_ReleaseEndsModalPath ==
    /\ [][(pc = "modal" /\ event' = "LEFTMOUSE_RELEASE")
             => /\ ret' = OPERATOR_FINISHED /\ ~handler' /\ pc' = "idle"
                /\ filter_cache' = NoCache
                /\ mem'.undo_ends = mem.undo_ends + 1
                /\ mem'.frees = mem.frees + Cardinality(mem.live)
                /\ applied' = applied /\ co' = co]_vars
    /\ [][(pc = "modal" /\ event' = "MOUSEMOVE")
             => (Len(applied') = Len(applied) + 1 /\ pc' = "task_cb")]_vars
    /\ [][(handler /\ pc \in {"task_cb", "displace_cb"})
             => /\ applied' = applied
                /\ (pc' = "modal"
                      => filter_cache'.iteration_count
                           = filter_cache.iteration_count + 1)]_vars
    /\ [][~handler /\ Len(done) >= 1 => ~handler']_vars
    /\ []((~handler /\ ctx = "modal") => pc \in {"idle", "cancelled"})

\* C19, witness: the button has been released after two motion samples.
C19_ReleasedAfterTwoSamples ==
    /\ event = "LEFTMOUSE_RELEASE"
    /\ pc = "idle" /\ ~handler
    /\ Len(applied) = 2
    /\ mem.undo_ends = 1

\* The configuration of a cache: what the start computed and the applies
\* only read.
CacheConfig(fc) ==
    << fc.nodes, fc.totnode, fc.obmat, fc.obmat_inv, fc.viewmat, fc.viewmat_inv,
       fc.orientation, fc.enabled_axis, fc.start_filter_strength, fc.random_seed,
       fc.sharpen_factor, fc.detail_directions, fc.limit_surface_co >>

\* C21: no step taken while a cache exists (a vertex of a node task, the
\* start of the second range, the return of an apply, the next replayed
\* item) changes the configuration of the cache or allocates or frees a
\* block; and the precomputed buffers are, in every state, what their init
\* functions give for the positions the run started with.
C21_ApplyKeepsCacheConfiguration ==
    /\ [][(filter_cache # NoCache /\ filter_cache' # NoCache)
             => /\ CacheConfig(filter_cache') = CacheConfig(filter_cache)
                /\ mem'.live = mem.live /\ mem'.allocs = mem.allocs
                /\ mem'.frees = mem.frees]_vars
    /\ [](filter_cache # NoCache
            => /\ filter_cache.nodes = GatherNodes
               /\ op.type = MESH_FILTER_SHARPEN
                    => /\ filter_cache.sharpen_factor =
                            mesh_filter_sharpen_init(
                                start_co, op.sharpen_curvature_smooth_iterations
                            ).sharpen_factor
                       /\ filter_cache.detail_directions =
                            mesh_filter_sharpen_init(
                                start_co, op.sharpen_curvature_smooth_iterations
                            ).detail_directions
               /\ op.type = MESH_FILTER_ENHANCE_DETAILS
                    => filter_cache.detail_directions =
                           mesh_filter_enhance_details_init_directions(start_co)
               /\ op.type = MESH_FILTER_ERASE_DISPLACEMENT
                    => filter_cache.limit_surface_co =
                           mesh_filter_init_limit_surface_co)

\* C21, witness: two applies of a Sharpen run have returned and moved a
\* vertex, the cache still holding its two buffers.
C21_SharpenAfterTwoApplies ==
    /\ filter_cache # NoCache
    /\ op.type = MESH_FILTER_SHARPEN
    /\ filter_cache.iteration_count = 2
    /\ co # start_co
    /\ {"sharpen_factor", "detail_directions"} \subseteq mem.live

\* The finished runs j and k are Random runs from the same positions with
\* the same iteration_count property, the same strengths and the same
\* random_seed.
SameRandomRun(j, k) ==
    /\ done[j].type = MESH_FILTER_RANDOM /\ done[k].type = MESH_FILTER_RANDOM
    /\ done[j].iteration_count = done[k].iteration_count
    /\ done[j].start_co = done[k].start_co
    /\ done[j].applied = done[k].applied
    /\ done[j].random_seed = done[k].random_seed

\* C22: two finished Random runs that started from the same positions with
\* the same settings, the same strengths and the same random_seed ended with the same
\* positions, whatever the order in which their node tasks visited the
\* vertices and whichever path (modal or exec) ran them.
C22_RandomRunsAgree ==
    \A j \in DOMAIN done : \A k \in DOMAIN done :
        SameRandomRun(j, k) => done[j].final_co = done[k].final_co

\* C22, witness: an interactive Random run that moved a vertex has been
\* undone and run again by exec with the same strength and seed.
C22_RandomRunRepeated ==
    /\ Len(done) = 2
    /\ SameRandomRun(1, 2)
    /\ done[1].path = "modal" /\ done[2].path = "exec"
    /\ done[1].final_co # done[1].start_co

\* The task of node n takes a step of mesh_filter_task_cb: it visits the
\* vertex at its position.
TaskCbVisits(n) == pc = "task_cb" /\ task_pos'[n] = task_pos[n] + 1

\* The vertex the task of node n is at.
VertexAt(n) == NodeVerts(n)[task_pos[n]]

\* fade of vertex v in the running apply, as the claims give it:
\* (1 - mask) * strength * automasking factor.
ClaimedFade(v) ==
    MulF(MulF(One - mask[v], data.filter_strength),
         IF use_automasking THEN AutomaskValue[v] ELSE One)

\* orig_co of vertex v in the running apply: the position at the start of
\* the run, or the current one when no_orig_co is set.
ClaimedOrigCo(v) == IF filter_cache.no_orig_co THEN co[v] ELSE start_co[v]

\* Where Inflate is to put vertex v: orig_co + fade * orig_normal.
InflateTarget(v) ==
    add_v3_v3v3(ClaimedOrigCo(v), mul_v3_v3fl(MeshNo[v], ClaimedFade(v)))

\* C23: as the claim states it, with all axes enabled every step of an
\* Inflate apply leaves the vertex it visits at orig_co + fade * orig_normal,
\* whatever the value of fade.
C23_InflateMovesAlongNormal ==
    [][\A n \in Nodes :
          (TaskCbVisits(n) /\ data.filter_type = MESH_FILTER_INFLATE
                           /\ op.deform_axis = 7)
              => co'[VertexAt(n)] = InflateTarget(VertexAt(n))]_vars

\* The detail magnitude of vertex v in the mesh c: the distance from v to
\* the mean of its neighbours.
DetailMagnitude(c, v) ==
    len_v3(sub_v3_v3v3(SCULPT_neighbor_coords_average(c, v), c[v]))

\* C24: as the claim states it, whenever the precomputation has run on a
\* mesh with a vertex of nonzero detail magnitude, with any number of
\* smoothing iterations, the largest sharpen_factor is 1.
C24_SharpenFactorMaxIsOne ==
    (filter_cache # NoCache /\ \E v \in Verts : DetailMagnitude(start_co, v) # 0)
        => /\ \E v \in Verts : filter_cache.sharpen_factor[v] = One
           /\ \A v \in Verts : filter_cache.sharpen_factor[v] <= One

\* C25: as the claim states it, whenever the precomputation has run, on any
\* mesh, every sharpen_factor is a number in [0, 1].
C25_SharpenFactorDefined ==
    filter_cache # NoCache
        => \A v \in Verts :
              /\ filter_cache.sharpen_factor[v] # NaN
              /\ filter_cache.sharpen_factor[v] >= 0
              /\ filter_cache.sharpen_factor[v] <= One

\* The finished runs j and k had the same input: kind and settings are
\* those of the operator, and the start positions, the recorded history,
\* the iteration_count property, the strengths applied and the random_seed
\* are equal.
SameInput(j, k) ==
    /\ done[j].type = done[k].type
    /\ done[j].start_co = done[k].start_co
    /\ done[j].history = done[k].history
    /\ done[j].iteration_count = done[k].iteration_count
    /\ done[j].applied = done[k].applied
    /\ done[j].random_seed = done[k].random_seed

\* C26: as the claim states it, the positions an apply ends with do not
\* depend on the schedule of its node tasks: two finished runs of any kind
\* with the same input, whose node tasks may have been interleaved
\* differently, ended with the same positions.
C26_ScheduleIndependentPositions ==
    \A j \in DOMAIN done : \A k \in DOMAIN done :
        SameInput(j, k) => done[j].final_co = done[k].final_co

\* Every node task of the running apply has visited all its vertices, in
\* the second range if the kind is Surface Smooth.
AllTasksComplete ==
    /\ pc \in {"task_cb", "displace_cb"}
    /\ \A n \in Nodes : task_pos[n] > Len(NodeVerts(n))
    /\ data.filter_type = MESH_FILTER_SURFACE_SMOOTH => pc = "displace_cb"

\* C27: applies do not overlap: a step that changes iteration_count, a
\* step that begins the next apply while one is running, and a step that
\* leaves the parallel ranges are taken only when every node task of the
\* running apply has completed (both ranges for Surface Smooth).
C27_AppliesDoNotOverlap ==
    [][(\/ /\ filter_cache # NoCache /\ filter_cache' # NoCache
           /\ filter_cache'.iteration_count # filter_cache.iteration_count
        \/ /\ pc \in {"task_cb", "displace_cb"}
           /\ Len(applied') # Len(applied)
        \/ /\ pc \in {"task_cb", "displace_cb"}
           /\ pc' \notin {"task_cb", "displace_cb"})
          => AllTasksComplete]_vars

\* C27, witness: the second apply of a Surface Smooth run has begun, and a
\* task of its first range has visited a vertex.
C27_SecondApplyStarted ==
    /\ pc = "task_cb"
    /\ data.filter_type = MESH_FILTER_SURFACE_SMOOTH
    /\ filter_cache.iteration_count = 1
    /\ Len(applied) = 2
    /\ \E n \in Nodes : task_pos[n] > 1

\* Where the iteration with count k is to put vertex v of a Relax Face Sets
\* run: in a phase with k mod 3 = 0 the vertices with a unique face set are
\* relaxed against the mesh boundary only, in the other phases the vertices
\* without one against the mesh and face-set boundaries; any other vertex,
\* and any vertex with fade 0, stays.
RelaxFaceSetsTarget(v, k) ==
    LET whole == k % 3 = 0
        unique == v # 2
        boundtype == IF whole THEN {SCULPT_BOUNDARY_MESH}
                     ELSE {SCULPT_BOUNDARY_MESH, SCULPT_BOUNDARY_FACE_SET}
        fade == ClaimedFade(v)
    IN  IF whole = unique /\ fade # 0
        THEN add_v3_v3v3(co[v],
                 ZeroDisabledAxis(
                     sub_v3_v3v3(SCULPT_relax_vertex(co, v, clamp_f(fade, 0, One),
                                                     boundtype), co[v]),
                     filter_cache))
        ELSE co[v]

\* C28: every step of a Relax Face Sets apply leaves the vertex it visits
\* where the phase of iteration_count says: relaxed by the rule of the
\* phase if the vertex belongs to the phase, unchanged otherwise.
C28_RelaxFaceSetsAlternation ==
    [][\A n \in Nodes :
          (TaskCbVisits(n) /\ data.filter_type = MESH_FILTER_RELAX_FACE_SETS)
              => co'[VertexAt(n)]
                     = RelaxFaceSetsTarget(VertexAt(n), filter_cache.iteration_count)]_vars

\* C28, witness: in the fourth iteration (iteration_count 3) the first
\* three have moved the vertex without a unique face set and the task of
\* node 1 has relaxed vertex 1.
C28_FourthIterationRelaxesUnique ==
    /\ pc = "task_cb"
    /\ data.filter_type = MESH_FILTER_RELAX_FACE_SETS
    /\ filter_cache.iteration_count = 3
    /\ task_pos[1] = 2
    /\ co[2] # start_co[2]
    /\ 1 \in acc.writes[1]

\* The task of node n visits a vertex in the second range of an apply.
DisplaceCbVisits(n) == pc = "displace_cb" /\ task_pos'[n] = task_pos[n] + 1

\* C29: a step that visits a vertex whose fade is 0 leaves its position
\* alone; for every kind but Surface Smooth it writes nothing and leaves
\* the normal flag as it was; the first pass of Surface Smooth stores the
\* Laplacian estimate of the vertex, and the second pass writes nothing.
C29_ZeroFadeSkipRule ==
    [][\A n \in Nodes :
          /\ (TaskCbVisits(n) /\ ClaimedFade(VertexAt(n)) = 0)
                => LET v == VertexAt(n)
                   IN  /\ co'[v] = co[v]
                       /\ data.filter_type # MESH_FILTER_SURFACE_SMOOTH
                            => /\ acc'.writes = acc.writes
                               /\ (v \in pbvh'.update_normal)
                                      = (v \in pbvh.update_normal)
                               /\ laplacian_disp' = laplacian_disp
                       /\ data.filter_type = MESH_FILTER_SURFACE_SMOOTH
                            => v \in acc'.lap
          /\ (DisplaceCbVisits(n) /\ ClaimedFade(VertexAt(n)) = 0)
                => /\ co' = co
                   /\ acc'.writes = acc.writes]_vars

\* C29, witness: the second pass of a Surface Smooth apply has gone past a
\* vertex with fade 0 whose Laplacian estimate the first pass stored, and
\* has moved another vertex.
C29_ZeroFadeVertexPassedTwice ==
    /\ pc = "displace_cb"
    /\ data.filter_type = MESH_FILTER_SURFACE_SMOOTH
    /\ ClaimedFade(3) = 0 /\ ClaimedFade(2) # 0
    /\ 3 \in acc.lap
    /\ task_pos[2] = 2
    /\ co[2] # start_co[2]
    /\ co[3] = start_co[3]

\* The cache of the state and the one of the next state are one allocation.
SameCache ==
    /\ filter_cache # NoCache /\ filter_cache' # NoCache
    /\ mem'.cache_inits = mem.cache_inits

\* How a step may change no_orig_co: a cache built by invoke has it false,
\* a cache built by exec has it set exactly when there is no history, and a
\* cache that has it set keeps it set.
NoOrigCoSteps ==
    /\ (filter_cache' # NoCache /\ mem'.cache_inits # mem.cache_inits)
          => filter_cache'.no_orig_co
                 = (last_call' = "exec" /\ Len(op'.event_history) = 0)
    /\ (SameCache /\ filter_cache.no_orig_co) => filter_cache'.no_orig_co

\* no_orig_co while a range runs: never in the modal path; in the exec path
\* from the start without a history, from the second outer iteration on
\* with one.
NoOrigCoInRange ==
    pc \in {"task_cb", "displace_cb"}
        => filter_cache.no_orig_co
               = (ctx = "exec" /\ (Len(op.event_history) = 0 \/ exec_i >= 1))

\* The kinds whose rule reads orig_co or adds its displacement to it.
\* Surface Smooth and Sharpen blend from the live position, and the
\* Laplacian step of Surface Smooth is handed orig_data.co (line 485).
OrigCoKinds ==
    { MESH_FILTER_SMOOTH, MESH_FILTER_SCALE, MESH_FILTER_INFLATE,
      MESH_FILTER_SPHERE, MESH_FILTER_RANDOM, MESH_FILTER_RELAX,
      MESH_FILTER_RELAX_FACE_SETS, MESH_FILTER_ENHANCE_DETAILS,
      MESH_FILTER_ERASE_DISPLACEMENT }

\* The step that visits v puts it where the rule of the kind puts it when
\* orig_co is the current position of v.
UsesCurrentPosition(v) ==
    co'[v] = VertexWith(data.filter_type, v, ClaimedFade(v), co[v],
                        filter_cache).final_pos

KindBuffers == {"sharpen_factor", "detail_directions", "limit_surface_co"}

\* The buffers the displacement rule of a kind indexes (lines 488-541).
BuffersRead(type) ==
    IF type = MESH_FILTER_SHARPEN THEN {"sharpen_factor", "detail_directions"}
    ELSE IF type = MESH_FILTER_ENHANCE_DETAILS THEN {"detail_directions"}
    ELSE IF type = MESH_FILTER_ERASE_DISPLACEMENT THEN {"limit_surface_co"}
    ELSE {}

BufferOf(fc, name) ==
    IF name = "sharpen_factor" THEN fc.sharpen_factor
    ELSE IF name = "detail_directions" THEN fc.detail_directions
    ELSE fc.limit_surface_co

\* C31: from start on, and so before the first apply and in every range,
\* the cache holds an entry per vertex in each buffer the rule of the kind
\* reads, and those blocks are live; the other buffers are null and not
\* allocated; a range runs only with a cache and applies the kind the
\* cache was built for.
C31_KindBuffersReady ==
    /\ pc \in {"task_cb", "displace_cb"}
          => filter_cache # NoCache /\ data.filter_type = op.type
    /\ filter_cache # NoCache
          => \A b \in KindBuffers :
                 IF b \in BuffersRead(op.type)
                 THEN /\ DOMAIN BufferOf(filter_cache, b) = Verts
                      /\ b \in mem.live
                 ELSE /\ BufferOf(filter_cache, b) = NULL
                      /\ b \notin mem.live

\* C31, witness: the second apply of an Enhance Details run is in its
\* range and has displaced a vertex along its stored direction.
C31_EnhanceDetailsSecondApply ==
    /\ pc = "task_cb"
    /\ data.filter_type = MESH_FILTER_ENHANCE_DETAILS
    /\ filter_cache.iteration_count = 1
    /\ DOMAIN filter_cache.detail_directions = Verts
    /\ task_pos[1] > 1
    /\ 1 \in acc.writes[1]

\* The coordinates c of the vertices of node n, as an undo node holds them.
NodeSnapshot(c, n) == [k \in DOMAIN NodeVerts(n) |-> c[NodeVerts(n)[k]]]

\* C32: the step that builds a cache moves no vertex and leaves an open
\* undo record, begun in that step, that holds the coordinates of every
\* node of the cache's list, with no apply counted yet; and as long as the
\* cache exists the record holds, for every node of the list, the
\* coordinates the run started from, whatever has been written since.
C32_SnapshotBeforeFirstApply ==
    /\ [][(filter_cache' # NoCache /\ mem'.cache_inits # mem.cache_inits)
            => /\ co' = co
               /\ mem'.undo_begins = mem.undo_begins + 1
               /\ undo'.open
               /\ filter_cache'.iteration_count = 0
               /\ \A k \in DOMAIN filter_cache'.nodes :
                     undo'.nodes[filter_cache'.nodes[k]]
                         = NodeSnapshot(co, filter_cache'.nodes[k])]_vars
    /\ [](filter_cache # NoCache
            => \A k \in DOMAIN filter_cache.nodes :
                  undo.nodes[filter_cache.nodes[k]]
                      = NodeSnapshot(start_co, filter_cache.nodes[k]))

\* C32, witness: a second run, started from moved coordinates, has written
\* vertex 1 in its first apply while the record still holds the position
\* the run started from.
C32_SecondRunWritesAfterSnapshot ==
    /\ runs = 2
    /\ pc = "task_cb"
    /\ filter_cache.iteration_count = 0
    /\ 1 \in acc.writes[1]
    /\ start_co[1] # MeshCo[1]
    /\ co[1] # start_co[1]
    /\ undo.nodes[1][1] = start_co[1]

\* start_filter_strength * (x - press_x) * 0.001 * DPI factor.
ClaimedStrength(start, press_x, x) ==
    TruncDiv(start * (x - press_x) * UI_DPI_FAC, StrengthDivisor)

\* The strength of the running apply is the claimed function of the sample
\* it was started for: in the modal path the sample just handled (the last
\* of the history of a continuous kind, one of the samples otherwise), in a
\* replay the item of the history the replay is at.
StrengthOfSample ==
    LET start == filter_cache.start_filter_strength
        h == op.event_history
    IN  IF ctx = "modal"
        THEN IF sculpt_mesh_filter_is_continuous(op.type)
             THEN data.filter_strength
                      = ClaimedStrength(start, h[1].mouse_event[1],
                                        h[Len(h)].mouse_event[1])
             ELSE \E xy \in MouseSamples :
                      data.filter_strength = ClaimedStrength(start, PressXY[1], xy[1])
        ELSE Len(h) > 0
                 => data.filter_strength
                        = ClaimedStrength(start, h[1].mouse_event[1],
                                          h[hist_i].mouse_event[1])

C34_RepeatKeepsStartStrength ==
    sculpt_mesh_filter_is_continuous(op.type)
        => /\ (pc = "idle" /\ ret = OPERATOR_FINISHED /\ Len(done) >= 1)
                 => op.strength = done[1].start_filter_strength
           /\ \A j \in DOMAIN done :
                 done[j].start_filter_strength = done[1].start_filter_strength
           /\ \A j \in DOMAIN done : \A k \in DOMAIN done :
                 (/\ done[j].path = "exec" /\ done[k].path = "exec"
                  /\ Len(done[j].history) > 0
                  /\ done[j].iteration_count = done[k].iteration_count)
                     => done[j].applied = done[k].applied

\* C34, witness: the history of a modal run whose last sample had another
\* strength than the run started with has been replayed twice.
C34_HistoryReplayedTwice ==
    /\ pc = "idle" /\ Len(done) = 3
    /\ sculpt_mesh_filter_is_continuous(op.type)
    /\ done[1].path = "modal" /\ done[2].path = "exec" /\ done[3].path = "exec"
    /\ Len(done[1].applied) = 1
    /\ done[1].applied[1] # done[1].start_filter_strength
    /\ done[3].history = done[1].history
    /\ done[3].iteration_count = done[2].iteration_count

\* x limited to lo .. hi.
Limit(x, lo, hi) == IF x < lo THEN lo ELSE IF x > hi THEN hi ELSE x

\* The factor the claim gives for a kind: fade limited to the interval of
\* the kind.
ClaimedFactor(type, fade) ==
    IF type \in {MESH_FILTER_SMOOTH, MESH_FILTER_ERASE_DISPLACEMENT}
    THEN Limit(fade, -One, One)
    ELSE IF type \in {MESH_FILTER_RELAX, MESH_FILTER_RELAX_FACE_SETS,
                      MESH_FILTER_SURFACE_SMOOTH}
    THEN Limit(fade, 0, One)
    ELSE Limit(fade, 0, One \div 2)

\* C35: a step of the first range of a clamping kind puts the vertex where
\* the rule of the kind puts it with the factor limited to the interval of
\* the kind ([-1,1] for Smooth and Erase Displacement, [0,1] for Relax,
\* Relax Face Sets and the blend of Surface Smooth, [0,0.5] for Sharpen),
\* whatever the strength is; with a strength <= 0 a Sharpen step leaves the
\* vertex where it is.
C35_FadeClamped ==
    [][\A n \in Nodes :
          (TaskCbVisits(n) /\ data.filter_type \in ClampedKinds)
              => LET v == VertexAt(n)
                     fade == ClaimedFade(v)
                 IN  /\ fade # 0
                        => co'[v] = VertexWith(data.filter_type, v,
                                        ClaimedFactor(data.filter_type, fade),
                                        OrigCoOf(data.filter_type, v, filter_cache),
                                        filter_cache).final_pos
                     /\ (data.filter_type = MESH_FILTER_SHARPEN
                            /\ data.filter_strength <= 0)
                        => co'[v] = co[v]]_vars

\* C35, witness: Smooth is executed with strength 10 and has moved vertex
\* 2, whose fade is 10, by the displacement of factor 1.
C35_SmoothAtFullStrength ==
    /\ pc = "task_cb"
    /\ data.filter_type = MESH_FILTER_SMOOTH
    /\ data.filter_strength = 10 * One
    /\ ClaimedFade(2) = 10 * One
    /\ task_pos[1] = 3
    /\ 2 \in acc.writes[1]
    /\ co[2] # start_co[2]

\* Vectors the round trip is tried on, besides the displacements of the
\* run: the axes, and vectors with three different components.
OrientVectors ==
    { <<One, 0, 0>>, <<0, One, 0>>, <<0, 0, One>>, <<1, 2, 3>>, <<-8, 4, -2>> }

\* C36: for each of Local, World and View, the way back to object space
\* after the way into the orientation frame returns the vector it started
\* from; so with all three axes enabled zeroing the disabled axes leaves a
\* displacement as it is, and a step of the first range writes the
\* position of the unprojected displacement.
C36_OrientationRoundTrip ==
    /\ [](filter_cache # NoCache
            => \A d \in OrientVectors \cup {sub_v3_v3v3(co[v], start_co[v]) : v \in Verts} :
                  /\ SCULPT_filter_to_object_space(
                         SCULPT_filter_to_orientation_space(d, filter_cache),
                         filter_cache) = d
                  /\ (\A it \in Axes : filter_cache.enabled_axis[it])
                        => ZeroDisabledAxis(d, filter_cache) = d)
    /\ [][\A n \in Nodes :
            (TaskCbVisits(n) /\ \A it \in Axes : filter_cache.enabled_axis[it])
                => LET v == VertexAt(n)
                       fade == ClaimedFade(v)
                       orig_co == OrigCoOf(data.filter_type, v, filter_cache)
                       sw == FilterSwitch(data.filter_type, v, fade, orig_co,
                                          filter_cache)
                   IN  fade # 0
                         => co'[v] = FinalPos(data.filter_type, v, orig_co,
                                              sw.disp, sw.fade)]_vars

\* C36, witness: in the view orientation with all three axes enabled a
\* vertex has been displaced along more than one axis of the mesh.
C36_ViewFrameAllAxes ==
    /\ filter_cache # NoCache
    /\ filter_cache.orientation = SCULPT_FILTER_ORIENTATION_VIEW
    /\ \A it \in Axes : filter_cache.enabled_axis[it]
    /\ 2 \in acc.writes[1]
    /\ Cardinality({it \in Axes : co[2][it] # start_co[2][it]}) >= 2

\* C37: a finished exec with the iteration count N has called apply N
\* times when the history was empty and N * (h - 1) times when the history
\* had h entries, and the iteration_count of the cache was that number when
\* the run finished.
C37_ExecApplyCount ==
    \A j \in DOMAIN done :
        done[j].path = "exec"
            => LET N == done[j].iteration_count
                   h == Len(done[j].history)
                   calls == IF h = 0 THEN N ELSE N * (h - 1)
               IN  /\ Len(done[j].applied) = calls
                   /\ done[j].cache_iteration_count = calls

\* C37, witness: an exec with one outer iteration has replayed a history
\* of three entries with two apply calls, and an exec with two outer
\* iterations and no history has finished.
C37_ThreeEntriesReplayed ==
    \E j \in DOMAIN done :
        /\ done[j].path = "exec"
        /\ done[j].iteration_count = 1
        /\ Len(done[j].history) = 3
        /\ Len(done[j].applied) = 2
        /\ done[j].cache_iteration_count = 2

\* C38: every motion sample the modal callback handles begins one apply;
\* and when the callback of a run of a continuous kind has returned after m
\* such samples, the history has m + 1 entries and iteration_count is m if
\* m >= 1, and the history is empty and iteration_count is 0 if m = 0.
C38_HistoryAndCountPerSample ==
    /\ [][(pc = "modal" /\ event' = "MOUSEMOVE")
             => Len(applied') = Len(applied) + 1]_vars
    /\ []((handler /\ pc = "modal" /\ sculpt_mesh_filter_is_continuous(op.type))
            => LET m == Len(applied)
               IN  IF m = 0
                   THEN /\ Len(op.event_history) = 0
                        /\ filter_cache.iteration_count = 0
                   ELSE /\ Len(op.event_history) = m + 1
                        /\ filter_cache.iteration_count = m)

\* C38, witness: the callback of a Relax run has returned after its second
\* motion sample.
C38_RelaxAfterTwoSamples ==
    /\ handler /\ pc = "modal"
    /\ op.type = MESH_FILTER_RELAX
    /\ event = "MOUSEMOVE"
    /\ Len(applied) = 2
    /\ Len(op.event_history) = 3
    /\ filter_cache.iteration_count = 2

\* The kinds that displace a vertex from its recorded original position.
DisplacingKinds ==
    { MESH_FILTER_SCALE, MESH_FILTER_INFLATE, MESH_FILTER_SPHERE, MESH_FILTER_RANDOM,
      MESH_FILTER_ENHANCE_DETAILS, MESH_FILTER_ERASE_DISPLACEMENT }

\* Where a motion sample of the given strength puts vertex v going by the
\* original state of v alone: the original position displaced by the rule
\* of the kind, which for a fade of 0 is the original position.
PositionFromOriginal(v, strength) ==
    LET fade == Fade(v, strength, filter_cache)
        sw == FilterSwitch(op.type, v, fade, start_co[v], filter_cache)
    IN  IF fade = 0 THEN start_co[v]
        ELSE add_v3_v3v3(start_co[v], ZeroDisabledAxis(sw.disp, filter_cache))

\* C39: as the claim states it, when the modal callback of a run of a kind
\* that displaces from the original has returned from a motion sample,
\* every vertex is where its original state and the strength of that
\* sample put it, whatever the earlier samples were; so two runs with the
\* same last sample have the same positions.
C39_PositionFromLastSample ==
    (/\ handler /\ pc = "modal"
     /\ op.type \in DisplacingKinds
     /\ Len(applied) > 0)
        => \A v \in Verts : co[v] = PositionFromOriginal(v, applied[Len(applied)])

\* C40: when the modal callback is handed an event that is neither a
\* pointer move nor the release of the left button, it begins no apply and
\* adds no history entry, leaves the strength, iteration_count, the cache
\* and every position as they are, and returns Running with the handler
\* still installed.
C40_OtherEventChangesNothing ==
    [][(/\ pc = "modal" /\ last_call' = "modal"
        /\ event' \notin {"MOUSEMOVE", "LEFTMOUSE_RELEASE"})
          => /\ applied' = applied
             /\ op'.event_history = op.event_history
             /\ op'.strength = op.strength
             /\ filter_cache' = filter_cache
             /\ filter_cache'.iteration_count = filter_cache.iteration_count
             /\ co' = co
             /\ undo' = undo
             /\ ret' = OPERATOR_RUNNING_MODAL
             /\ handler' /\ pc' = "modal"]_vars

\* C40, witness: the callback of a Smooth run that has handled one motion
\* sample and moved a vertex has been handed a key event and is still
\* running.
C40_KeyEventDuringSmoothRun ==
    /\ pc = "modal" /\ handler
    /\ event \in OtherEvents
    /\ ret = OPERATOR_RUNNING_MODAL
    /\ op.type = MESH_FILTER_SMOOTH
    /\ Len(applied) = 1
    /\ Len(op.event_history) = 2
    /\ co # start_co

====
